---- MODULE Spec2Model ----
(***************************************************************************)
(* Model of the git synchronisation service of OneDragon                   *)
(* (src/src/one_dragon/envs/git_service.py).                               *)
(*                                                                         *)
(* The on-disk repository is the record `repo`; the remote server is       *)
(* `serverTip`; the external configuration is `env`.  Each public          *)
(* operation of GitService is one action that runs the whole handler and   *)
(* records its input state, its steps and its result in `last`.            *)
(* Library semantics used (pygit2 / libgit2):                              *)
(*   - descendant_of(c, a) is FALSE when c = a (a commit is not a          *)
(*     descendant of itself);                                              *)
(*   - reset(oid, HARD) moves the branch HEAD points at (creating it when  *)
(*     HEAD is unborn), and rewrites index and tracked files; untracked    *)
(*     files stay;                                                         *)
(*   - repo.head raises when HEAD is unborn;                               *)
(*   - fetch does not prune: a remote-tracking ref survives the deletion   *)
(*     of the branch on the server;                                        *)
(*   - repo.status() lists untracked files as well as modifications;       *)
(*   - packaging.version.Version raises InvalidVersion on a name that is   *)
(*     not a PEP 440 version;                                              *)
(*   - remote.fetch() is called without a proxy argument, so the transport *)
(*     does not depend on the http.proxy / https.proxy keys that           *)
(*     _apply_proxy writes into the repository configuration.              *)
(***************************************************************************)
EXTENDS Integers, Sequences, FiniteSets, TLC

VARIABLES repo, serverTip, env, last, serverTags, proc, yaml, lock

vars == <<repo, serverTip, env, last, serverTags, proc, yaml, lock>>

(* ------------------------------ bounds -------------------------------- *)

\* commits 1..RemoteLen are the history published on the server, a chain
RemoteLen == 2
\* commits RemoteLen+1 .. RemoteLen+NumLocal are commits made locally
NumLocal == 3
\* longest text of the personal proxy setting, in tokens
MaxProxyLen == 3
\* number of repository handles a process opens at most
MaxHandles == 3
\* largest page size and page number asked of fetch_page_commit
MaxPageSize == 2
MaxPageNum == 2

\* largest modification time of a file
MaxMtime == 3

\* processes that use the same lock name
NumProcs == 2

\* lock files created over a run
MaxFiles == 3

(* --------------------------- commit graph ----------------------------- *)

NoCommit == 0

Commits == 1..(RemoteLen + NumLocal)

RemoteCommits == 1..RemoteLen

LocalCommits == (RemoteLen + 1)..(RemoteLen + NumLocal)

\* parent of a commit: the published chain 1 <- 2 <- ...; the first local
\* commit is a root (made in a repository without history), the second one is
\* made on top of the first, the k-th one (k > 2) on published commit k-2
Parent(c) ==
    IF c <= RemoteLen THEN c - 1
    ELSE IF c = RemoteLen + 1 THEN NoCommit
    ELSE IF c = RemoteLen + 2 THEN RemoteLen + 1
    ELSE c - RemoteLen - 2

RECURSIVE IsAncestorOrSelf(_, _)
IsAncestorOrSelf(a, c) ==
    IF c = NoCommit THEN FALSE
    ELSE IF a = c THEN TRUE
    ELSE IsAncestorOrSelf(a, Parent(c))

\* pygit2 Repository.descendant_of(commit, ancestor): strict
DescendantOf(commit, ancestor) ==
    commit # ancestor /\ IsAncestorOrSelf(ancestor, commit)

(* --------------------------- configuration ---------------------------- *)

\* env_config.git_branch: the one target branch
TargetBranch == "main"

\* "master" is the branch HEAD names after init_repository; it also stands
\* for any other branch the user works on
Branches == {"main", "master"}

InitBranch == "master"

RepositoryTypes == {"GitHub", "Gitee", "Other"}

GitMethods == {"HTTPS", "SSH"}

\* the text of env_config.personal_proxy, as a sequence of tokens: "SP" is
\* white space, "HTTP://" a scheme-like text that is not one of the three
\* prefixes the code knows
ProxyTokens == {"SP", "http://", "https://", "socks5://", "HTTP://", "host:port"}

RECURSIVE TextsUpTo(_)
TextsUpTo(n) ==
    IF n = 0 THEN {<<>>}
    ELSE LET shorter == TextsUpTo(n - 1) IN
         shorter \cup {Append(t, k) : t \in shorter, k \in ProxyTokens}

ProxyTexts == TextsUpTo(MaxProxyLen)

\* every provider, transport, hosting-proxy and force_update setting, the
\* personal proxy switched off
EnvSet == [force_update : BOOLEAN, repository_type : RepositoryTypes,
           git_method : GitMethods, is_gh_proxy : BOOLEAN,
           is_personal_proxy : {FALSE}, personal_proxy : {<<>>}]

\* the settings the synchronisation runs are explored under: every value of
\* force_update and of the hosting proxy, a known and an unknown provider
SyncEnvSet == {e \in EnvSet : e.git_method = "HTTPS" /\ e.repository_type # "Gitee"}

\* every setting of the personal proxy, the other settings fixed
ProxyEnvSet == [force_update : {FALSE}, repository_type : {"GitHub"},
                git_method : {"HTTPS"}, is_gh_proxy : {FALSE},
                is_personal_proxy : BOOLEAN, personal_proxy : ProxyTexts]

\* the same, the hosting proxy used for every call
GetGitRepositoryProxyAlways(e, for_clone) ==
    IF e.repository_type = "GitHub"
    THEN IF e.git_method = "HTTPS"
         THEN IF e.is_gh_proxy
              THEN "gh_proxy_url/github_https"
              ELSE "github_https"
         ELSE "github_ssh"
    ELSE IF e.repository_type = "Gitee"
    THEN IF e.git_method = "HTTPS" THEN "gitee_https" ELSE "gitee_ssh"
    ELSE ""

\* get_git_repository
GetGitRepository(e, for_clone) ==
    IF e.repository_type = "GitHub"
    THEN IF e.git_method = "HTTPS"
         THEN IF e.is_gh_proxy /\ for_clone
              THEN "gh_proxy_url/github_https"
              ELSE "github_https"
         ELSE "github_ssh"
    ELSE IF e.repository_type = "Gitee"
    THEN IF e.git_method = "HTTPS" THEN "gitee_https" ELSE "gitee_ssh"
    ELSE ""

(* ----------------------------- repository ----------------------------- *)

\* exists    : the .git directory is there
\* url       : url of remote 'origin' ("" = no such remote)
\* rt        : commit of refs/remotes/origin/<target> (NoCommit = no ref)
\* br        : commit of each local branch (NoCommit = no such branch)
\* head      : the branch HEAD is attached to (unborn when br[head] = NoCommit)
\* wt        : the commit whose tree the index and tracked files were taken from
\* mod       : a tracked file carries an uncommitted modification
\* untracked : the work directory holds a file git does not track
\* http_proxy, https_proxy : the keys http.proxy and https.proxy of the
\*             repository configuration (NoProxy = key absent)
NoProxy == <<>>

NoRepo ==
    [exists |-> FALSE, url |-> "", rt |-> NoCommit,
     br |-> [b \in Branches |-> NoCommit], head |-> InitBranch,
     wt |-> NoCommit, mod |-> FALSE, untracked |-> FALSE,
     http_proxy |-> NoProxy, https_proxy |-> NoProxy]

HeadCommit(g) == g.br[g.head]

\* repo.reset(oid, GIT_RESET_HARD)
ResetHard(g, oid) ==
    [g EXCEPT !.br[g.head] = oid, !.wt = oid, !.mod = FALSE]

\* GitOperationResult(success, code, message); a bare (bool, message) tuple
\* returned by a public method has code "NONE"
Result(success, code, msg) == [success |-> success, code |-> code, msg |-> msg]

Tuple(success, msg) == Result(success, "NONE", msg)

\* what a handler leaves behind: repository, result, escaped exception, steps
Out(g, res, raised, log) == [g |-> g, res |-> res, raised |-> raised, log |-> log]

(* ------------------------- private helpers ---------------------------- *)

\* the same, an existing remote returned as it is
EnsureRemoteKeepsUrl(g, e, for_clone) ==
    LET remote_url == GetGitRepository(e, for_clone) IN
    IF remote_url = ""
    THEN [ok |-> FALSE, g |-> g, log |-> <<>>]
    ELSE IF ~g.exists
    THEN [ok |-> FALSE, g |-> g, log |-> <<>>]
    ELSE IF g.url # ""
    THEN [ok |-> TRUE, g |-> g, log |-> <<>>]
    ELSE [ok |-> TRUE, g |-> [g EXCEPT !.url = remote_url],
          log |-> <<"create_remote">>]

\* _ensure_remote: [ok, g, log]
EnsureRemote(g, e, for_clone) ==
    LET remote_url == GetGitRepository(e, for_clone) IN
    IF remote_url = ""
    THEN [ok |-> FALSE, g |-> g, log |-> <<>>]
    ELSE IF ~g.exists
    THEN \* _open_repo raises, caught
         [ok |-> FALSE, g |-> g, log |-> <<>>]
    ELSE IF g.url # ""
    THEN IF g.url = remote_url
         THEN [ok |-> TRUE, g |-> g, log |-> <<>>]
         ELSE [ok |-> TRUE, g |-> [g EXCEPT !.url = remote_url],
               log |-> <<"set_url">>]
    ELSE [ok |-> TRUE, g |-> [g EXCEPT !.url = remote_url],
          log |-> <<"create_remote">>]

\* str.strip() on a text of tokens
RECURSIVE LStrip(_)
LStrip(t) ==
    IF t # <<>> /\ Head(t) = "SP" THEN LStrip(Tail(t)) ELSE t

RECURSIVE RStrip(_)
RStrip(t) ==
    IF t # <<>> /\ t[Len(t)] = "SP" THEN RStrip(SubSeq(t, 1, Len(t) - 1)) ELSE t

Strip(t) == RStrip(LStrip(t))

\* the same, the scheme always put in front
GetProxyAddressAlwaysPrefix(e) ==
    IF ~e.is_personal_proxy THEN NoProxy
    ELSE LET proxy == Strip(e.personal_proxy) IN
         IF proxy = <<>> THEN NoProxy
         ELSE <<"http://">> \o proxy

\* _get_proxy_address: the address, NoProxy for None
GetProxyAddress(e) ==
    IF ~e.is_personal_proxy THEN NoProxy
    ELSE LET proxy == Strip(e.personal_proxy) IN
         IF proxy = <<>> THEN NoProxy
         ELSE IF Head(proxy) \in {"http://", "https://", "socks5://"} THEN proxy
         ELSE <<"http://">> \o proxy

\* where the configuration access of _apply_proxy raises: nowhere, at
\* repo.config, or at the https.proxy key (after the http.proxy key was done)
ProxyFailures == {"no", "config", "https_key"}

\* the same, only the http.proxy key written
ApplyProxyHttpOnly(g, e, proxyFail) ==
    LET proxy == GetProxyAddress(e) IN
    IF ~g.exists \/ proxyFail = "config"
    THEN [g |-> g, log |-> <<"apply_proxy_failed">>]
    ELSE [g |-> [g EXCEPT !.http_proxy = proxy],
          log |-> IF proxy = NoProxy \/ proxyFail = "no" THEN <<"apply_proxy">>
                  ELSE <<"apply_proxy_failed">>]

\* _apply_proxy: [g, log]; nothing it raises leaves it
ApplyProxy(g, e, proxyFail) ==
    LET proxy == GetProxyAddress(e) IN
    IF ~g.exists \/ proxyFail = "config"
    THEN [g |-> g, log |-> <<"apply_proxy_failed">>]
    ELSE IF proxyFail = "https_key"
    THEN \* del: the GitError is suppressed; set: caught by the outer except
         [g |-> [g EXCEPT !.http_proxy = proxy],
          log |-> IF proxy = NoProxy THEN <<"apply_proxy">>
                  ELSE <<"apply_proxy_failed">>]
    ELSE [g |-> [g EXCEPT !.http_proxy = proxy, !.https_proxy = proxy],
          log |-> <<"apply_proxy">>]

\* the same, a failure of _apply_proxy reaching the except of _fetch_remote
FetchRemoteProxyAborts(g, e, netOk, proxyFail) ==
    LET ap == ApplyProxy(g, e, proxyFail) IN
    IF netOk /\ proxyFail = "no"
    THEN [res |-> Result(TRUE, "FETCH_SUCCESS", "fetch_success"),
          g |-> [ap.g EXCEPT !.rt = IF serverTip # NoCommit THEN serverTip ELSE @],
          log |-> ap.log \o <<"fetch_ok">>]
    ELSE [res |-> Result(FALSE, "FETCH_ERROR", "fetch_failed"),
          g |-> ap.g, log |-> ap.log \o <<"fetch_fail">>]

\* _fetch_remote: after _apply_proxy the transport either delivers the
\* server's branch tip into the remote-tracking ref or raises: [res, g, log]
FetchRemote(g, e, netOk, proxyFail) ==
    LET ap == ApplyProxy(g, e, proxyFail) IN
    IF netOk
    THEN [res |-> Result(TRUE, "FETCH_SUCCESS", "fetch_success"),
          g |-> [ap.g EXCEPT !.rt = IF serverTip # NoCommit THEN serverTip ELSE @],
          log |-> ap.log \o <<"fetch_ok">>]
    ELSE [res |-> Result(FALSE, "FETCH_ERROR", "fetch_failed"),
          g |-> ap.g, log |-> ap.log \o <<"fetch_fail">>]

\* _get_branch_commit for the target branch: the commit or NoCommit (None)
GetBranchCommit(g, allow_local) ==
    IF g.rt # NoCommit THEN g.rt
    ELSE IF allow_local THEN HeadCommit(g)   \* repo.head.peel() raises if unborn
    ELSE NoCommit

\* the same without the final set_head
CheckoutBranchNoSetHead(g, allow_local) ==
    LET commit == GetBranchCommit(g, allow_local) IN
    IF commit = NoCommit
    THEN [ok |-> FALSE, oid |-> NoCommit, g |-> g, log |-> <<>>]
    ELSE [ok |-> TRUE, oid |-> commit,
          g |-> [g EXCEPT !.br[TargetBranch] = commit, !.wt = commit,
                          !.mod = FALSE],
          log |-> <<IF g.br[TargetBranch] # NoCommit THEN "set_target"
                    ELSE "create_branch", "checkout">>]

\* _checkout_branch for the target branch: [ok, oid, g, log]
CheckoutBranch(g, allow_local) ==
    LET commit == GetBranchCommit(g, allow_local) IN
    IF commit = NoCommit
    THEN [ok |-> FALSE, oid |-> NoCommit, g |-> g, log |-> <<>>]
    ELSE [ok |-> TRUE, oid |-> commit,
          g |-> [g EXCEPT !.br[TargetBranch] = commit, !.wt = commit,
                          !.mod = FALSE, !.head = TargetBranch],
          log |-> <<IF g.br[TargetBranch] # NoCommit THEN "set_target"
                    ELSE "create_branch", "checkout", "set_head">>]

\* the same without the forced-update branch
SyncWithRemoteNoForce(g, force) ==
    IF g.rt = NoCommit
    THEN [res |-> Result(TRUE, "REMOTE_BRANCH_MISSING", ""), g |-> g, log |-> <<>>]
    ELSE LET remote_oid == g.rt
             local_oid == HeadCommit(g)
         IN
         IF local_oid = NoCommit
         THEN [res |-> Result(FALSE, "HEAD_MISSING", "update_failed"),
               g |-> g, log |-> <<>>]
         ELSE IF DescendantOf(remote_oid, local_oid)
         THEN [res |-> Result(TRUE, "FAST_FORWARD", "update_success"),
               g |-> ResetHard(g, remote_oid), log |-> <<"reset_hard">>]
         ELSE [res |-> Result(FALSE, "NEED_MANUAL_REBASE", "update_failed"),
               g |-> g, log |-> <<>>]

\* _sync_with_remote for the target branch: [res, g, log]
SyncWithRemote(g, force) ==
    IF g.rt = NoCommit
    THEN [res |-> Result(TRUE, "REMOTE_BRANCH_MISSING", ""), g |-> g, log |-> <<>>]
    ELSE LET remote_oid == g.rt
             local_oid == HeadCommit(g)      \* repo.head.target, None if it raises
         IN
         IF local_oid = NoCommit
         THEN IF force
              THEN [res |-> Result(TRUE, "RESET_HEAD", "update_success"),
                    g |-> ResetHard(g, remote_oid), log |-> <<"reset_hard">>]
              ELSE [res |-> Result(FALSE, "HEAD_MISSING", "update_failed"),
                    g |-> g, log |-> <<>>]
         ELSE IF DescendantOf(remote_oid, local_oid)
         THEN [res |-> Result(TRUE, "FAST_FORWARD", "update_success"),
               g |-> ResetHard(g, remote_oid), log |-> <<"reset_hard">>]
         ELSE IF force
         THEN [res |-> Result(TRUE, "FORCED_RESET", "update_success"),
               g |-> ResetHard(g, remote_oid), log |-> <<"reset_hard">>]
         ELSE [res |-> Result(FALSE, "NEED_MANUAL_REBASE", "update_failed"),
               g |-> g, log |-> <<>>]

\* get_current_branch: the name, or "None" when repo.head raises (unborn)
GetCurrentBranch(g) ==
    IF HeadCommit(g) = NoCommit THEN "None" ELSE g.head

\* the same, a status query that raises taken for a clean tree
IsCurrentBranchCleanOnError(g, statusRaises) ==
    IF statusRaises THEN "True"
    ELSE IF ~g.mod /\ ~g.untracked /\ g.wt = HeadCommit(g) THEN "True"
    ELSE "False"

\* is_current_branch_clean: "True", "False", or "None" when status raises
IsCurrentBranchClean(g, statusRaises) ==
    IF statusRaises THEN "None"
    ELSE IF ~g.mod /\ ~g.untracked /\ g.wt = HeadCommit(g) THEN "True"
    ELSE "False"

(* --------------------------- public handlers -------------------------- *)

\* the same, the completion reported whatever the synchronisation returned
CL_CheckoutAlwaysCompletes(g, e, log) ==
    IF GetCurrentBranch(g) = "None"
    THEN Out(g, Tuple(FALSE, "get_current_branch_failed"), FALSE, log)
    ELSE LET co == CheckoutBranch(g, TRUE)
             log2 == log \o <<"p0.6">> \o co.log
         IN
         IF ~co.ok
         THEN Out(co.g, Tuple(FALSE, "checkout_target_failed"), FALSE, log2)
         ELSE LET sr == SyncWithRemote(co.g, e.force_update) IN
              Out(sr.g, sr.res, FALSE,
                  log2 \o <<"p0.8">> \o sr.log \o <<"p1.0">>)

\* checkout_latest_project_branch from the branch detection on
CL_Checkout(g, e, log) ==
    IF GetCurrentBranch(g) = "None"
    THEN Out(g, Tuple(FALSE, "get_current_branch_failed"), FALSE, log)
    ELSE LET co == CheckoutBranch(g, TRUE)
             log2 == log \o <<"p0.6">> \o co.log
         IN
         IF ~co.ok
         THEN Out(co.g, Tuple(FALSE, "checkout_target_failed"), FALSE, log2)
         ELSE LET sr == SyncWithRemote(co.g, e.force_update) IN
              Out(sr.g, sr.res, FALSE,
                  log2 \o <<"p0.8">> \o sr.log
                       \o (IF sr.res.success THEN <<"p1.0">> ELSE <<>>))

\* the same with the refusal of a dirty tree left out
CL_CheckWorkTreeNoGuard(g, e, statusRaises, log) ==
    LET is_clean == IsCurrentBranchClean(g, statusRaises) IN
    IF is_clean # "True"
    THEN LET commit == GetBranchCommit(g, FALSE) IN
         IF commit = NoCommit
         THEN Out(g, Tuple(FALSE, "force_update_failed"), FALSE, log)
         ELSE CL_Checkout(ResetHard(g, commit), e, log \o <<"reset_hard", "p0.4">>)
    ELSE CL_Checkout(g, e, log \o <<"p0.4">>)

\* checkout_latest_project_branch from the work tree check on
CL_CheckWorkTree(g, e, statusRaises, log) ==
    LET is_clean == IsCurrentBranchClean(g, statusRaises) IN
    IF is_clean # "True"
    THEN IF e.force_update
         THEN LET commit == GetBranchCommit(g, FALSE) IN
              IF commit = NoCommit
              THEN Out(g, Tuple(FALSE, "force_update_failed"), FALSE, log)
              ELSE CL_Checkout(ResetHard(g, commit), e,
                               log \o <<"reset_hard", "p0.4">>)
         ELSE Out(g, Tuple(FALSE, "dirty_no_force"), FALSE, log)
    ELSE CL_Checkout(g, e, log \o <<"p0.4">>)

\* the same, going on after a fetch that failed
CheckoutLatestProjectBranchIgnoresFetch(g, e, netOk, statusRaises, proxyFail) ==
    LET er == EnsureRemote(g, e, FALSE) IN
    IF ~er.ok
    THEN Out(er.g, Tuple(FALSE, "remote_config_failed"), FALSE, er.log)
    ELSE LET fr == FetchRemote(er.g, e, netOk, proxyFail) IN
         CL_CheckWorkTree(fr.g, e, statusRaises, er.log \o fr.log \o <<"p0.2">>)

\* the same, the remote resolved as for a clone
CheckoutLatestProjectBranchForClone(g, e, netOk, statusRaises, proxyFail) ==
    LET er == EnsureRemote(g, e, TRUE) IN
    IF ~er.ok
    THEN Out(er.g, Tuple(FALSE, "remote_config_failed"), FALSE, er.log)
    ELSE LET fr == FetchRemote(er.g, e, netOk, proxyFail) IN
         IF ~fr.res.success
         THEN Out(fr.g, fr.res, FALSE, er.log \o fr.log)
         ELSE CL_CheckWorkTree(fr.g, e, statusRaises,
                               er.log \o fr.log \o <<"p0.2">>)

\* checkout_latest_project_branch
CheckoutLatestProjectBranch(g, e, netOk, statusRaises, proxyFail) ==
    LET er == EnsureRemote(g, e, FALSE) IN
    IF ~er.ok
    THEN Out(er.g, Tuple(FALSE, "remote_config_failed"), FALSE, er.log)
    ELSE LET fr == FetchRemote(er.g, e, netOk, proxyFail) IN
         IF ~fr.res.success
         THEN Out(fr.g, fr.res, FALSE, er.log \o fr.log)
         ELSE CL_CheckWorkTree(fr.g, e, statusRaises,
                               er.log \o fr.log \o <<"p0.2">>)

\* clone_repository
CloneRepository(g, e, initOk, netOk, proxyFail) ==
    IF ~initOk
    THEN Out(g, Tuple(FALSE, "clone_failed"), FALSE, <<"p-1">>)
    ELSE LET er == EnsureRemote([g EXCEPT !.exists = TRUE], e, TRUE)
             log1 == <<"p-1", "init">> \o er.log
         IN
         IF ~er.ok
         THEN Out(er.g, Tuple(FALSE, "remote_config_failed"), FALSE, log1)
         ELSE LET fr == FetchRemote(er.g, e, netOk, proxyFail) IN
              IF ~fr.res.success
              THEN Out(fr.g, fr.res, FALSE, log1 \o fr.log)
              ELSE LET co == CheckoutBranch(fr.g, FALSE)
                       log2 == log1 \o fr.log \o <<"p0.6">> \o co.log
                   IN
                   IF ~co.ok
                   THEN Out(co.g, Tuple(FALSE, "clone_failed"), FALSE, log2)
                   ELSE Out(ResetHard(co.g, co.oid), Tuple(TRUE, "clone_success"),
                            FALSE, log2 \o <<"reset_hard", "p1.0">>)

(* ------------------------------- tags --------------------------------- *)

\* names of tags the remote may carry
TagNames == {"1.0", "1.1-beta", "2.0-beta", "2.0", "nightly"}

\* '-beta' in version
HasBetaMarker(t) == t \in {"1.1-beta", "2.0-beta"}

\* packaging.version.Version(t) as a sort key; -1 when it raises InvalidVersion
VersionKey(t) ==
    CASE t = "1.0" -> 100
      [] t = "1.1-beta" -> 109
      [] t = "2.0-beta" -> 199
      [] t = "2.0" -> 200
      [] OTHER -> -1

\* sorted(set(tags), key=Version)
RECURSIVE SortedVersions(_)
SortedVersions(S) ==
    IF S = {} THEN <<>>
    ELSE LET m == CHOOSE t \in S : \A u \in S : VersionKey(t) <= VersionKey(u)
         IN <<m>> \o SortedVersions(S \ {m})

\* the selection loop of get_latest_tag from position i on
RECURSIVE ScanVersions(_, _, _, _)
ScanVersions(versions, i, latest_stable, latest_beta) ==
    IF i > Len(versions)
    THEN [stable |-> latest_stable, beta |-> latest_beta]
    ELSE IF HasBetaMarker(versions[i])
    THEN ScanVersions(versions, i + 1, latest_stable,
                      IF latest_beta = "None" THEN versions[i] ELSE latest_beta)
    ELSE IF latest_stable = "None"
    THEN [stable |-> versions[i], beta |-> latest_beta]     \* break
    ELSE ScanVersions(versions, i + 1, latest_stable, latest_beta)

NoTags == [stable |-> "None", beta |-> "None"]

\* the same, the versions scanned from the highest down
GetLatestTagOfNewestFirst(g, e, netOk, proxyFail, tags) ==
    IF ~g.exists
    THEN [g |-> g, tags |-> NoTags, raised |-> FALSE, listed |-> FALSE]
    ELSE LET er == EnsureRemote(g, e, FALSE) IN
         IF ~er.ok
         THEN [g |-> er.g, tags |-> NoTags, raised |-> FALSE, listed |-> FALSE]
         ELSE LET ap == ApplyProxy(er.g, e, proxyFail) IN
         IF ~netOk
         THEN [g |-> ap.g, tags |-> NoTags, raised |-> FALSE, listed |-> FALSE]
         ELSE IF \E t \in tags : VersionKey(t) < 0
         THEN [g |-> ap.g, tags |-> NoTags, raised |-> TRUE, listed |-> TRUE]
         ELSE LET v == SortedVersions(tags) IN
              [g |-> ap.g,
               tags |-> ScanVersions([i \in 1..Len(v) |-> v[Len(v) + 1 - i]],
                                     1, "None", "None"),
               raised |-> FALSE, listed |-> TRUE]

\* get_latest_tag: [g, tags, raised, listed]
GetLatestTagOf(g, e, netOk, proxyFail, tags) ==
    IF ~g.exists
    THEN [g |-> g, tags |-> NoTags, raised |-> FALSE, listed |-> FALSE]
    ELSE LET er == EnsureRemote(g, e, FALSE) IN
         IF ~er.ok
         THEN [g |-> er.g, tags |-> NoTags, raised |-> FALSE, listed |-> FALSE]
         ELSE LET ap == ApplyProxy(er.g, e, proxyFail) IN
         IF ~netOk
         THEN [g |-> ap.g, tags |-> NoTags, raised |-> FALSE, listed |-> FALSE]
         ELSE IF \E t \in tags : VersionKey(t) < 0
         THEN \* InvalidVersion leaves sorted() and the method
              [g |-> ap.g, tags |-> NoTags, raised |-> TRUE, listed |-> TRUE]
         ELSE [g |-> ap.g,
               tags |-> ScanVersions(SortedVersions(tags), 1, "None", "None"),
               raised |-> FALSE, listed |-> TRUE]

(* --------------------------- history readers -------------------------- *)

\* repo.walk(head_target, GIT_SORT_TIME): the commits reachable from c, the
\* newest first (commit times grow along the chain)
RECURSIVE Walk(_)
Walk(c) == IF c = NoCommit THEN <<>> ELSE <<c>> \o Walk(Parent(c))

\* GitLog(short_id, author, commit_time, message) of a commit
GitLogOf(c) == [short_id |-> c, message |-> <<"message of", c>>]

\* the for loop of fetch_page_commit from the idx-th commit of the walk on
\* (idx counts from 1 here, enumerate counts from 0)
RECURSIVE PageLoop(_, _, _, _, _)
PageLoop(walk, idx, logs, page_num, page_size) ==
    IF idx > Len(walk) THEN logs
    ELSE IF idx - 1 < page_num * page_size
    THEN PageLoop(walk, idx + 1, logs, page_num, page_size)
    ELSE IF Len(logs) >= page_size THEN logs
    ELSE PageLoop(walk, idx + 1, Append(logs, GitLogOf(walk[idx])),
                  page_num, page_size)

\* the same, the pages counted from 1
FetchPageCommitOneBased(g, page_num, page_size) ==
    IF ~g.exists THEN <<>>
    ELSE IF HeadCommit(g) = NoCommit THEN <<>>
    ELSE PageLoop(Walk(HeadCommit(g)), 1, <<>>, page_num - 1, page_size)

\* fetch_page_commit: the list returned ([] when the repository cannot be
\* opened or HEAD has no commit)
FetchPageCommitOf(g, page_num, page_size) ==
    IF ~g.exists THEN <<>>
    ELSE IF HeadCommit(g) = NoCommit THEN <<>>
    ELSE PageLoop(Walk(HeadCommit(g)), 1, <<>>, page_num, page_size)

\* the commits repo.revparse_single finds by id: those reachable from a
\* branch tip or from the remote-tracking branch
HasObject(g, c) ==
    /\ g.exists
    /\ c \in Commits
    /\ \/ IsAncestorOrSelf(c, g.rt)
       \/ \E b \in Branches : IsAncestorOrSelf(c, g.br[b])

\* reset_to_commit: False when the repository cannot be opened or the id
\* does not resolve, else a hard reset to the commit and True
ResetToCommitOf(g, commit_id) ==
    IF ~HasObject(g, commit_id) THEN Out(g, FALSE, FALSE, <<>>)
    ELSE Out(ResetHard(g, commit_id), TRUE, FALSE, <<"reset_hard">>)

\* the same, HEAD itself not counted
FetchTotalCommitOfParents(g) ==
    IF ~g.exists THEN 0
    ELSE IF HeadCommit(g) = NoCommit THEN 0
    ELSE Cardinality({d \in Commits : DescendantOf(HeadCommit(g), d)})

\* fetch_total_commit: 0 when the repository cannot be opened or HEAD has no
\* commit, else the number of commits repo.walk(head_target,
\* GIT_SORT_TOPOLOGICAL) yields: every commit reachable from HEAD, once
FetchTotalCommitOf(g) ==
    IF ~g.exists THEN 0
    ELSE IF HeadCommit(g) = NoCommit THEN 0
    ELSE Cardinality({d \in Commits : IsAncestorOrSelf(d, HeadCommit(g))})

\* the paths asked for: a text file of every commit, a GBK text file and an
\* image that only the first published commit has, a directory, and a path
\* no commit has
Paths == {"config.yml", "legacy.yml", "logo.png", "assets", "none.yml"}

\* commit.tree: every commit has a tree of its own, but the first local
\* commit (made in a repository without history from an unpacked copy of the
\* first published commit) has the tree of published commit 1
TreeOf(c) == IF c = RemoteLen + 1 THEN 1 ELSE c

\* tree[relative_path] of a commit: what the entry is ("absent": KeyError)
EntryKind(c, path) ==
    IF path = "config.yml" THEN "utf8"
    ELSE IF path = "assets" THEN "tree"
    ELSE IF path = "legacy.yml" /\ TreeOf(c) = 1 THEN "gbk"
    ELSE IF path = "logo.png" /\ TreeOf(c) = 1 THEN "binary"
    ELSE "absent"

\* blob.data of the entry: the bytes committed for the path in commit c
BlobData(c, path) == <<"bytes of", path, TreeOf(c)>>

\* repo.diff(a, b): the paths whose entries differ between the two commits
Diff(a, b) ==
    {path \in Paths : \/ EntryKind(a, path) # EntryKind(b, path)
                      \/ BlobData(a, path) # BlobData(b, path)}

\* bytes.decode(codec): the text, or UnicodeDecodeError
Decode(kind, data, codec) ==
    IF kind = codec THEN [ok |-> TRUE, content |-> <<"text of", data>>]
    ELSE [ok |-> FALSE, content |-> <<>>]

\* the return value None
NoContent == [ok |-> FALSE, content |-> <<>>]

\* the ref arguments: None (HEAD), a local branch, the remote-tracking
\* branch, a name that does not resolve
RefArgs == {"None", "main", "master", "origin/main", "bogus"}

\* repo.revparse_single(ref) peeled to a commit, NoCommit when it raises
RevParseSingle(g, ref) ==
    IF ref \in Branches THEN g.br[ref]
    ELSE IF ref = "origin/main" THEN g.rt
    ELSE NoCommit

\* the same, done by checking the commit out
CheckoutFileFromTreeByCheckout(g, path, ref) ==
    IF ~g.exists THEN Out(g, NoContent, FALSE, <<>>)
    ELSE LET commit == IF ref = "None" THEN HeadCommit(g)
                       ELSE RevParseSingle(g, ref) IN
         IF commit = NoCommit THEN Out(g, NoContent, FALSE, <<>>)
         ELSE LET kind == EntryKind(commit, path)
                  co == [g EXCEPT !.wt = commit, !.mod = FALSE] IN
              IF kind = "absent" THEN Out(g, NoContent, FALSE, <<>>)
              ELSE IF kind = "tree" THEN Out(g, NoContent, FALSE, <<>>)
              ELSE LET utf8 == Decode(kind, BlobData(commit, path), "utf8")
                       gbk == Decode(kind, BlobData(commit, path), "gbk") IN
                   IF utf8.ok THEN Out(co, utf8, FALSE, <<"checkout">>)
                   ELSE IF gbk.ok THEN Out(co, gbk, FALSE, <<"checkout">>)
                   ELSE Out(co, NoContent, FALSE, <<"checkout">>)

\* checkout_file_from_tree: the repository after the call and the content
\* returned; every exception ends in return None
CheckoutFileFromTreeOf(g, path, ref) ==
    IF ~g.exists THEN Out(g, NoContent, FALSE, <<>>)
    ELSE LET commit == IF ref = "None" THEN HeadCommit(g)
                       ELSE RevParseSingle(g, ref) IN
         IF commit = NoCommit THEN Out(g, NoContent, FALSE, <<>>)
         ELSE LET kind == EntryKind(commit, path) IN
              IF kind = "absent" THEN Out(g, NoContent, FALSE, <<>>)
              ELSE IF kind = "tree" THEN Out(g, NoContent, FALSE, <<>>)
              ELSE LET utf8 == Decode(kind, BlobData(commit, path), "utf8")
                       gbk == Decode(kind, BlobData(commit, path), "gbk") IN
                   IF utf8.ok THEN Out(g, utf8, FALSE, <<>>)
                   ELSE IF gbk.ok THEN Out(g, gbk, FALSE, <<>>)
                   ELSE Out(g, NoContent, FALSE, <<>>)

\* the same, only the commit ids compared
IsCurrentBranchLatestIdsOnly(g, e, netOk, proxyFail) ==
    LET er == EnsureRemote(g, e, FALSE) IN
    IF ~er.ok THEN Out(g, Tuple(FALSE, "remote_config_failed"), FALSE, er.log)
    ELSE LET fr == FetchRemote(er.g, e, netOk, proxyFail)
             steps == er.log \o fr.log IN
         IF ~fr.res.success
         THEN Out(fr.g, Tuple(FALSE, fr.res.msg), FALSE, steps)
         ELSE IF fr.g.rt = NoCommit
         THEN Out(fr.g, Tuple(FALSE, "not_same_as_remote"), FALSE, steps)
         ELSE IF HeadCommit(fr.g) = NoCommit
         THEN Out(fr.g, Tuple(FALSE, "not_same_as_remote"), FALSE, steps)
         ELSE IF HeadCommit(fr.g) = fr.g.rt
         THEN Out(fr.g, Tuple(TRUE, ""), FALSE, steps)
         ELSE Out(fr.g, Tuple(FALSE, "not_same_as_remote"), FALSE, steps)

\* is_current_branch_latest
IsCurrentBranchLatestOf(g, e, netOk, proxyFail) ==
    LET er == EnsureRemote(g, e, FALSE) IN
    IF ~er.ok THEN Out(g, Tuple(FALSE, "remote_config_failed"), FALSE, er.log)
    ELSE LET fr == FetchRemote(er.g, e, netOk, proxyFail)
             steps == er.log \o fr.log IN
         IF ~fr.res.success
         THEN Out(fr.g, Tuple(FALSE, fr.res.msg), FALSE, steps)
         ELSE IF fr.g.rt = NoCommit
         THEN Out(fr.g, Tuple(FALSE, "not_same_as_remote"), FALSE, steps)
         ELSE IF HeadCommit(fr.g) = NoCommit     \* repo.head raises
         THEN Out(fr.g, Tuple(FALSE, "not_same_as_remote"), FALSE, steps)
         ELSE IF HeadCommit(fr.g) = fr.g.rt
         THEN Out(fr.g, Tuple(TRUE, ""), FALSE, steps)
         ELSE IF Diff(HeadCommit(fr.g), fr.g.rt) = {}
         THEN Out(fr.g, Tuple(TRUE, ""), FALSE, steps)
         ELSE Out(fr.g, Tuple(FALSE, "not_same_as_remote"), FALSE, steps)

(* ------------------------- repository handles ------------------------- *)

\* the GitService instances of a process: the one of the application and the
\* one read_yaml_from_git creates lazily (_git_service_cache)
Instances == {"sync", "yaml"}

NoHandle == 0

\* handle[i] : self._repo of instance i (NoHandle = None)
\* opened    : number of pygit2.Repository objects created so far; the
\*             objects are numbered in the order of their creation
NoProc == [handle |-> [i \in Instances |-> NoHandle], opened |-> 0]

\* _open_repo of instance i: the process after the call (when the directory
\* is no repository, pygit2.Repository raises and self._repo stays None)
OpenRepo(p, i, refresh, exists) ==
    LET cached == IF refresh THEN NoHandle ELSE p.handle[i] IN
    IF cached # NoHandle THEN p
    ELSE IF exists
    THEN [p EXCEPT !.handle[i] = p.opened + 1, !.opened = p.opened + 1]
    ELSE [p EXCEPT !.handle[i] = NoHandle]

\* the handles some instance still refers to
LiveHandles(p) == {p.handle[i] : i \in Instances} \ {NoHandle}

(* ------------------------- configuration loader ---------------------- *)

\* the yml files loaded: one that every commit tracks, one that no commit has
YamlPaths == {"config.yml", "none.yml"}

\* the version of the bytes a user's edit leaves on disk
EditedVersion == RemoteLen + NumLocal + 1

\* the bytes of a path on disk, by version; NoCommit when there is no file:
\* a tracked file is as checked out unless modified, the other file is the
\* untracked file of the work directory
DiskVersion(g, path) ==
    IF path = "none.yml" THEN (IF g.untracked THEN EditedVersion ELSE NoCommit)
    ELSE IF g.wt = NoCommit THEN NoCommit
    ELSE IF g.mod THEN EditedVersion
    ELSE TreeOf(g.wt)

\* open(file_path, 'r', encoding='utf-8').read()
ReadText(path, version) == <<"text of", <<"bytes of", path, version>>>>

\* yaml.safe_load(text)
SafeLoad(text) == <<"data of", text>>

\* no data: None, or the key missing from cached_yaml_data
NoData == <<>>

NoStamp == 0

\* cache     : cached_yaml_data
\* stamps    : cached_yaml_timestamps (NoStamp = key missing)
\* dev_cache : _yaml_dev_mode_cache ("None", "True", "False")
\* dev_flag  : yaml_dev_mode in config/env.yml on disk
\* mtime     : os.path.getmtime of the files
NoYaml ==
    [cache |-> [path \in YamlPaths |-> NoData],
     stamps |-> [path \in YamlPaths |-> NoStamp],
     dev_cache |-> "None", dev_flag |-> FALSE,
     mtime |-> [path \in YamlPaths |-> 1]]

\* the property yaml_dev_mode: [y, value]
YamlDevMode(y) ==
    IF y.dev_cache # "None" THEN [y |-> y, value |-> y.dev_cache = "True"]
    ELSE [y |-> [y EXCEPT !.dev_cache = IF y.dev_flag THEN "True" ELSE "False"],
          value |-> y.dev_flag]

\* read_yaml_from_git: [y, data]; NoData for None
ReadYamlFromGit(y, g, path) ==
    IF ~g.exists THEN [y |-> y, data |-> NoData]
    ELSE LET content == CheckoutFileFromTreeOf(g, path, "None").res IN
         IF ~content.ok THEN [y |-> y, data |-> NoData]
         ELSE LET data == SafeLoad(content.content) IN
              [y |-> [y EXCEPT !.cache[path] = data], data |-> data]

\* YamlOperator.__read_from_file: [y, data, source]
ReadFromFile(y0, g, path) ==
    LET dm == YamlDevMode(y0)
        dev_mode == dm.value
        on_disk == DiskVersion(g, path) # NoCommit
        y1 == IF /\ dev_mode /\ on_disk
                 /\ dm.y.stamps[path] # NoStamp
                 /\ dm.y.stamps[path] # dm.y.mtime[path]
              THEN [dm.y EXCEPT !.cache[path] = NoData]
              ELSE dm.y
        git == IF dev_mode THEN [y |-> y1, data |-> NoData]
               ELSE ReadYamlFromGit(y1, g, path)
    IN
    IF y1.cache[path] # NoData
    THEN [y |-> y1, data |-> y1.cache[path], source |-> "cache"]
    ELSE IF git.data # NoData
    THEN [y |-> git.y, data |-> git.data, source |-> "git"]
    ELSE IF ~on_disk
    THEN [y |-> git.y, data |-> NoData, source |-> "default"]
    ELSE LET data == SafeLoad(ReadText(path, DiskVersion(g, path))) IN
         [y |-> [git.y EXCEPT !.cache[path] = data,
                              !.stamps[path] = IF dev_mode THEN git.y.mtime[path]
                                               ELSE @],
          data |-> data, source |-> "disk"]

\* the loader step by step, with the file changing in between: the caches
\* of NoYaml and
\* disk  : the version of the bytes of each file on disk
\* pc    : where the construction under way stands ("idle": none)
\* path, dev_mode, start : its path, the value of yaml_dev_mode it read, the
\*         version on disk when it began
HotYaml ==
    [cache |-> NoYaml.cache, stamps |-> NoYaml.stamps,
     dev_cache |-> NoYaml.dev_cache, dev_flag |-> TRUE,
     mtime |-> NoYaml.mtime,
     disk |-> [path \in YamlPaths |-> 1],
     pc |-> "idle", path |-> "config.yml", dev_mode |-> FALSE, start |-> 1]

\* __read_from_file, steps 1 to 3: yaml_dev_mode, the time stamp check that
\* drops the cached data of a modified file, the cache lookup
LoadCheck(y0, path) ==
    LET dm == YamlDevMode(y0)
        y1 == IF /\ dm.value
                 /\ dm.y.stamps[path] # NoStamp
                 /\ dm.y.stamps[path] # dm.y.mtime[path]
              THEN [dm.y EXCEPT !.cache[path] = NoData]
              ELSE dm.y
    IN [y1 EXCEPT !.path = path, !.dev_mode = dm.value, !.start = y1.disk[path],
                  !.pc = IF y1.cache[path] # NoData THEN "idle" ELSE "read"]

\* steps 4 and 5 up to read_cache_or_load: [y, data, source]
LoadRead(y, g) ==
    LET git == IF y.dev_mode THEN [y |-> y, data |-> NoData]
               ELSE ReadYamlFromGit(y, g, y.path)
    IN
    IF git.data # NoData
    THEN [y |-> [git.y EXCEPT !.pc = "idle"], data |-> git.data, source |-> "git"]
    ELSE LET data == SafeLoad(ReadText(y.path, y.disk[y.path])) IN
         [y |-> [y EXCEPT !.cache[y.path] = data,
                          !.pc = IF y.dev_mode THEN "stamp" ELSE "idle"],
          data |-> data, source |-> "disk"]

\* the recording of the time stamp after the read, in developer mode
LoadStamp(y) ==
    [y EXCEPT !.stamps[y.path] = y.mtime[y.path], !.pc = "idle"]

\* __read_from_file as a whole: [y, data, source]
Load(y0, g, path) ==
    LET c == LoadCheck(y0, path)
        r == IF c.pc = "idle"
             THEN [y |-> c, data |-> c.cache[path], source |-> "cache"]
             ELSE LoadRead(c, g)
    IN [y |-> IF r.y.pc = "stamp" THEN LoadStamp(r.y) ELSE r.y,
        data |-> r.data, source |-> r.source]

\* the configuration data is followed by the value of one key: the bytes
\* of version v of a file, and the data loaded from them, hold the value v
\* (the committed files hold the version of their tree)
ValueOf(data) == IF data = NoData THEN NoCommit ELSE data[2][2][3]

\* the dict with the key set to value
WithValue(path, value) == SafeLoad(ReadText(path, value))

\* the values update is called with
UpdateValues == {EditedVersion, EditedVersion + 1}

\* no YamlOperator object
NoOperator == [path |-> "", data |-> NoData]

\* the loader's state with one YamlOperator object of the application (its
\* data is the dict object the cache holds) and the value last passed to
\* update(key, value, save=True) for each path (NoCommit: none)
DurableYaml ==
    [operator |-> NoOperator, saved |-> [path \in YamlPaths |-> NoCommit]]
        @@ HotYaml

\* update(key, value, save=True) on the object, save included
UpdateOf(y, value) ==
    LET path == y.operator.path IN
    IF ValueOf(y.operator.data) = value
    THEN [y EXCEPT !.saved[path] = value]
    ELSE [y EXCEPT !.operator.data = WithValue(path, value),
                   !.cache[path] = IF @ # NoData THEN WithValue(path, value) ELSE @,
                   !.disk[path] = value,
                   !.mtime[path] = @ + 1,
                   !.saved[path] = value]

(* -------------------------- single instance lock ---------------------- *)

LockProcs == 1..NumProcs

NoFile == 0

NoOwner == 0

\* path    : the file at _lock_path (NoFile: no such file)
\* created : number of files created at _lock_path so far; they are numbered
\* h       : self._file of the lock object of each process (NoFile = None)
\* owner   : the process whose msvcrt.locking lock is on byte 0 of a file
\* pc      : where each process is inside acquire or release
\* blocking: the argument of the acquire call under way
NoLock ==
    [path |-> NoFile, created |-> 0,
     h |-> [p \in LockProcs |-> NoFile],
     owner |-> [f \in 1..MaxFiles |-> NoOwner],
     pc |-> [p \in LockProcs |-> "idle"],
     blocking |-> [p \in LockProcs |-> FALSE]]

\* open(self._lock_path, "a+") and _prepare_lock_file: the file is created
\* when there is none
OpenLockFile(l, p, blocking) ==
    LET f == IF l.path = NoFile THEN l.created + 1 ELSE l.path IN
    [l EXCEPT !.path = f,
              !.created = IF l.path = NoFile THEN @ + 1 ELSE @,
              !.h[p] = f, !.pc[p] = "opened", !.blocking[p] = blocking]

\* the same without the test of self._file
AcquireEntryReopens(l, p, blocking) == OpenLockFile(l, p, blocking)

\* acquire up to the locking call: nothing when self._file is set
AcquireEntry(l, p, blocking) ==
    IF l.h[p] # NoFile THEN l ELSE OpenLockFile(l, p, blocking)

\* msvcrt.locking(fileno, LK_NBLCK or LK_LOCK, 1) got the lock
LockGranted(l, p) ==
    [l EXCEPT !.owner[l.h[p]] = p, !.pc[p] = "held"]

\* msvcrt.locking raised OSError: SingleInstanceError is on its way
LockRefused(l, p) == [l EXCEPT !.pc[p] = "lock_failed"]

\* _release_on_failure
ReleaseOnFailure(l, p) == [l EXCEPT !.h[p] = NoFile, !.pc[p] = "idle"]

\* _unlock_file
UnlockFile(l, p) ==
    [l EXCEPT !.owner[l.h[p]] = NoOwner, !.pc[p] = "unlocked"]

\* release up to the close: nothing when self._file is None
ReleaseEntry(l, p) ==
    IF l.h[p] = NoFile THEN l ELSE UnlockFile(l, p)

\* self._file.close(); self._file = None
CloseLockFile(l, p) == [l EXCEPT !.h[p] = NoFile, !.pc[p] = "closed"]

\* the same, the file removed also while another process has it open
UnlinkLockFileWhileOpen(l, p) ==
    [l EXCEPT !.path = NoFile, !.pc[p] = "idle"]

\* self._lock_path.unlink() with OSError suppressed: on Windows a file that
\* some process has open cannot be removed
UnlinkLockFile(l, p) ==
    IF l.path # NoFile /\ \A q \in LockProcs : l.h[q] # l.path
    THEN [l EXCEPT !.path = NoFile, !.pc[p] = "idle"]
    ELSE [l EXCEPT !.pc[p] = "idle"]

(* ------------------------------ try_acquire --------------------------- *)

NumThreads == 2

MaxDepth == 2

Threads == 1..NumThreads

\* a threading.Lock and the with-blocks of try_acquire the threads are in:
\* holder : the thread whose acquire locked it (NoOwner: unlocked)
\* blocks : for each thread the value `acquired` of every with-block it is
\*          inside, the innermost last
NoMutex ==
    [holder |-> NoOwner, blocks |-> [t \in Threads |-> <<>>]]

\* lock.acquire(blocking) when it returns: True and locked when the lock was
\* free, False when not (a blocking call returns only once the lock is free)
MutexAcquire(m, t) ==
    IF m.holder = NoOwner
    THEN [m |-> [m EXCEPT !.holder = t], result |-> TRUE]
    ELSE [m |-> m, result |-> FALSE]

\* lock.release(): a threading.Lock is unlocked by whichever thread calls it
MutexRelease(m) == [m EXCEPT !.holder = NoOwner]

\* try_acquire up to the yield
TryAcquireEnter(m, t) ==
    LET a == MutexAcquire(m, t) IN
    [a.m EXCEPT !.blocks[t] = Append(@, a.result)]

\* the same, the lock released whatever acquire returned
TryAcquireExitAlways(m, t) ==
    LET n == Len(m.blocks[t])
        left == [m EXCEPT !.blocks[t] = SubSeq(@, 1, n - 1)]
    IN MutexRelease(left)

\* try_acquire from the end of the body on (the finally clause)
TryAcquireExit(m, t) ==
    LET n == Len(m.blocks[t])
        acquired == m.blocks[t][n]
        left == [m EXCEPT !.blocks[t] = SubSeq(@, 1, n - 1)]
    IN IF acquired THEN MutexRelease(left) ELSE left

(* ------------------------------ controller ---------------------------- *)

\* PcControllerBase after __init__:
\* btn_controller          : the active button controller, by its kind
\* xbox_controller, ds4_controller : whether the object was created
\* vgamepad                : pc_button_utils.is_vgamepad_installed()
NoController ==
    [btn_controller |-> "keyboard", xbox_controller |-> FALSE,
     ds4_controller |-> FALSE, background_mode |-> FALSE, vgamepad |-> FALSE]

EnableXbox(c) ==
    IF c.vgamepad
    THEN [c EXCEPT !.xbox_controller = TRUE, !.btn_controller = "xbox"]
    ELSE c

EnableDs4(c) ==
    IF c.vgamepad
    THEN [c EXCEPT !.ds4_controller = TRUE, !.btn_controller = "ds4"]
    ELSE c

EnableKeyboard(c) == [c EXCEPT !.btn_controller = "keyboard"]

EnableBackgroundMode(c) == EnableXbox([c EXCEPT !.background_mode = TRUE])

EnableForegroundMode(c) == EnableKeyboard([c EXCEPT !.background_mode = FALSE])

\* the arguments of gamepad_click: None, one key, a combination
GamepadKeys == {<<>>, <<"xbox_0">>, <<"xbox_6", "xbox_0">>}

\* gamepad_click: the return value and the controller the keys went to
GamepadClick(c, gamepad_key) ==
    IF c.background_mode /\ gamepad_key # <<>>
    THEN [res |-> TRUE, tapped |-> c.btn_controller]
    ELSE [res |-> FALSE, tapped |-> "none"]

(* ------------------------------ actions ------------------------------- *)

NoCall == [op |-> "none"]

\* failures of _apply_proxy explored inside the synchronisation runs
SyncProxyFailures == {"no", "config"}

\* the preceding call, when it was a fetch_latest_code or a reset_to_commit
\* that nothing followed
PrevCall ==
    IF last.op = "fetch_latest_code"
    THEN [called |-> TRUE, path |-> last.path, success |-> last.res.success,
          ok |-> last.netOk /\ ~last.statusRaises, head |-> HeadCommit(repo)]
    ELSE IF last.op = "reset_to_commit"
    THEN [called |-> FALSE, rolled_back |-> last.res, to |-> last.commit_id]
    ELSE [called |-> FALSE]

\* fetch_latest_code
FetchLatestCode ==
    \E netOk \in BOOLEAN, initOk \in BOOLEAN, statusRaises \in BOOLEAN,
       proxyFail \in SyncProxyFailures :
      \E o \in {IF ~repo.exists
                 THEN CloneRepository(repo, env, initOk, netOk, proxyFail)
                 ELSE CheckoutLatestProjectBranch(repo, env, netOk,
                                                  statusRaises, proxyFail)} :
        LET clone == ~repo.exists IN
        /\ clone => ~statusRaises
        /\ ~clone => initOk
        /\ proc.opened < MaxHandles
        /\ (\A k \in DOMAIN o.log : o.log[k] \notin {"fetch_ok", "fetch_fail"})
              => proxyFail = "no"
        /\ repo' = o.g
        /\ proc' = IF clone
                   THEN IF initOk THEN OpenRepo(proc, "sync", TRUE, TRUE) ELSE proc
                   ELSE IF GetGitRepository(env, FALSE) # ""
                   THEN OpenRepo(proc, "sync", FALSE, repo.exists)
                   ELSE proc
        /\ last' = [op |-> "fetch_latest_code",
                    path |-> IF clone THEN "clone" ELSE "checkout",
                    pre |-> repo, netOk |-> netOk, initOk |-> initOk,
                    statusRaises |-> statusRaises, proxyFail |-> proxyFail,
                    res |-> o.res, raised |-> o.raised, log |-> o.log,
                    prev |-> PrevCall]
        /\ UNCHANGED <<serverTip, env, serverTags, yaml, lock>>

\* get_latest_tag
GetLatestTag ==
    \E netOk \in BOOLEAN, proxyFail \in ProxyFailures :
        \E o \in {GetLatestTagOf(repo, env, netOk, proxyFail, serverTags)} :
        /\ proc.opened < MaxHandles
        /\ repo' = o.g
        /\ proc' = IF repo.exists /\ GetGitRepository(env, FALSE) # ""
                   THEN OpenRepo(proc, "sync", FALSE, TRUE)
                   ELSE proc
        /\ last' = [op |-> "get_latest_tag", pre |-> repo, netOk |-> netOk,
                    all |-> serverTags,
                    tags |-> o.tags, raised |-> o.raised, listed |-> o.listed]
        /\ UNCHANGED <<serverTip, env, serverTags, yaml, lock>>

\* _apply_proxy, as init_git_proxy calls it on an existing repository;
\* repeated tells that the call before was one that did not fail, made with
\* the same settings
ApplyProxyCall ==
    \E proxyFail \in ProxyFailures :
        \E ap \in {ApplyProxy(repo, env, proxyFail)} :
        /\ proc.opened < MaxHandles
        /\ repo.exists
        /\ repo' = ap.g
        /\ proc' = OpenRepo(proc, "sync", FALSE, TRUE)
        /\ last' = [op |-> "_apply_proxy", pre |-> repo, proxyFail |-> proxyFail,
                    log |-> ap.log,
                    repeated |-> (last.op = "_apply_proxy" /\ last.proxyFail = "no")]
        /\ UNCHANGED <<serverTip, env, serverTags, yaml, lock>>

\* get_git_repository
GetGitRepositoryCall ==
    \E for_clone \in BOOLEAN :
        /\ last' = [op |-> "get_git_repository", for_clone |-> for_clone,
                    url |-> GetGitRepository(env, for_clone)]
        /\ UNCHANGED <<repo, serverTip, env, serverTags, proc, yaml, lock>>

\* _ensure_remote, as update_git_remote and clone_repository call it
EnsureRemoteCall ==
    \E for_clone \in BOOLEAN :
        \E er \in {EnsureRemote(repo, env, for_clone)} :
        /\ proc.opened < MaxHandles
        /\ repo' = er.g
        /\ proc' = IF GetGitRepository(env, for_clone) # ""
                   THEN OpenRepo(proc, "sync", FALSE, repo.exists)
                   ELSE proc
        /\ last' = [op |-> "_ensure_remote", for_clone |-> for_clone,
                    pre |-> repo, ok |-> er.ok, log |-> er.log, raised |-> FALSE]
        /\ UNCHANGED <<serverTip, env, serverTags, yaml, lock>>

\* _get_proxy_address; normalized tells that the setting read is an address
\* this method returned
GetProxyAddressCall ==
    /\ last' = [op |-> "_get_proxy_address", out |-> GetProxyAddress(env),
                normalized |-> (last.op = "store_proxy")]
    /\ UNCHANGED <<repo, serverTip, env, serverTags, proc, yaml, lock>>

\* fetch_page_commit
FetchPageCommit ==
    \E page_num \in 0..MaxPageNum, page_size \in 1..MaxPageSize :
        /\ proc.opened < MaxHandles
        /\ proc' = OpenRepo(proc, "sync", FALSE, repo.exists)
        /\ last' = [op |-> "fetch_page_commit", page_num |-> page_num,
                    page_size |-> page_size, pre |-> repo,
                    res |-> FetchPageCommitOf(repo, page_num, page_size)]
        /\ UNCHANGED <<repo, serverTip, env, serverTags, yaml, lock>>

\* reset_to_commit, with the id of a commit or an id that names nothing
ResetToCommit ==
    \E commit_id \in Commits \cup {NoCommit} :
        \E o \in {ResetToCommitOf(repo, commit_id)} :
        /\ proc.opened < MaxHandles
        /\ repo' = o.g
        /\ proc' = OpenRepo(proc, "sync", FALSE, repo.exists)
        /\ last' = [op |-> "reset_to_commit", commit_id |-> commit_id,
                    pre |-> repo, res |-> o.res, log |-> o.log]
        /\ UNCHANGED <<serverTip, env, serverTags, yaml, lock>>

\* fetch_total_commit
FetchTotalCommit ==
    /\ proc.opened < MaxHandles
    /\ proc' = OpenRepo(proc, "sync", FALSE, repo.exists)
    /\ last' = [op |-> "fetch_total_commit", pre |-> repo,
                res |-> FetchTotalCommitOf(repo)]
    /\ UNCHANGED <<repo, serverTip, env, serverTags, yaml, lock>>

\* checkout_file_from_tree, called on the GitService of read_yaml_from_git
CheckoutFileFromTree ==
    \E path \in Paths, ref \in RefArgs :
        \E o \in {CheckoutFileFromTreeOf(repo, path, ref)} :
        /\ proc.opened < MaxHandles
        /\ repo' = o.g
        /\ proc' = OpenRepo(proc, "yaml", FALSE, repo.exists)
        /\ last' = [op |-> "checkout_file_from_tree", path |-> path,
                    ref |-> ref, pre |-> repo, res |-> o.res,
                    raised |-> o.raised]
        /\ UNCHANGED <<serverTip, env, serverTags, yaml, lock>>

\* is_current_branch_latest
IsCurrentBranchLatest ==
    \E netOk \in BOOLEAN, proxyFail \in SyncProxyFailures :
        \E o \in {IsCurrentBranchLatestOf(repo, env, netOk, proxyFail)} :
        /\ proc.opened < MaxHandles
        /\ (GetGitRepository(env, FALSE) = "" \/ ~repo.exists) => proxyFail = "no"
        /\ repo' = o.g
        /\ proc' = IF GetGitRepository(env, FALSE) # ""
                   THEN OpenRepo(proc, "sync", FALSE, repo.exists)
                   ELSE proc
        /\ last' = [op |-> "is_current_branch_latest", pre |-> repo,
                    netOk |-> netOk, proxyFail |-> proxyFail, res |-> o.res,
                    raised |-> o.raised, log |-> o.log]
        /\ UNCHANGED <<serverTip, env, serverTags, yaml, lock>>

\* YamlOperator(file_path): the constructor, which is __read_from_file
YamlOperatorInit ==
    \E path \in YamlPaths :
        \E r \in {ReadFromFile(yaml, repo, path)} :
        /\ proc.opened < MaxHandles
        /\ yaml' = r.y
        /\ proc' = IF r.source # "cache" /\ ~YamlDevMode(yaml).value /\ repo.exists
                   THEN OpenRepo(proc, "yaml", FALSE, TRUE)
                   ELSE proc
        /\ last' = [op |-> "YamlOperator", path |-> path, pre |-> yaml,
                    dev_mode |-> YamlDevMode(yaml).value,
                    data |-> r.data, source |-> r.source]
        /\ UNCHANGED <<repo, serverTip, env, serverTags, lock>>

\* YamlOperator(path) begins: the cached data returned, or the file to read
ConstructBegin ==
    \E path \in YamlPaths :
        \E y \in {LoadCheck(yaml, path)} :
        /\ yaml.pc = "idle"
        /\ yaml' = y
        /\ last' = IF y.pc = "idle"
                   THEN [op |-> "YamlOperator", path |-> path, pre |-> yaml,
                         dev_mode |-> y.dev_mode, start |-> y.start,
                         data |-> y.cache[path], source |-> "cache"]
                   ELSE [op |-> "loading", path |-> path, pre |-> yaml]
        /\ UNCHANGED <<repo, serverTip, env, serverTags, proc, lock>>

\* the construction under way reads HEAD or the file
ConstructRead ==
    \E r \in {LoadRead(yaml, repo)} :
        /\ yaml.pc = "read"
        /\ yaml' = r.y
        /\ last' = IF r.y.pc = "idle"
                   THEN [op |-> "YamlOperator", path |-> yaml.path, pre |-> yaml,
                         dev_mode |-> yaml.dev_mode, start |-> yaml.start,
                         data |-> r.data, source |-> r.source]
                   ELSE [op |-> "loading", path |-> yaml.path, pre |-> yaml]
        /\ UNCHANGED <<repo, serverTip, env, serverTags, proc, lock>>

\* the construction under way records the time stamp and ends
ConstructStamp ==
    /\ yaml.pc = "stamp"
    /\ yaml' = LoadStamp(yaml)
    /\ last' = [op |-> "YamlOperator", path |-> yaml.path, pre |-> yaml,
                dev_mode |-> yaml.dev_mode, start |-> yaml.start,
                data |-> yaml.cache[yaml.path], source |-> "disk"]
    /\ UNCHANGED <<repo, serverTip, env, serverTags, proc, lock>>

\* another program writes a file: new bytes, a new modification time
FileModified ==
    /\ \E path \in YamlPaths :
          /\ yaml.mtime[path] < MaxMtime
          /\ yaml' = [yaml EXCEPT !.mtime[path] = @ + 1, !.disk[path] = @ + 1]
    /\ last' = IF last.op = "loading" THEN last ELSE NoCall
    /\ UNCHANGED <<repo, serverTip, env, serverTags, proc, lock>>

\* YamlOperator(path), the object kept by the application
ConstructOperator ==
    \E path \in YamlPaths :
        \E l \in {Load(yaml, repo, path)} :
        /\ yaml' = [l.y EXCEPT !.operator = [path |-> path, data |-> l.data]]
        /\ last' = [op |-> "YamlOperator", path |-> path, pre |-> yaml,
                    dev_mode |-> l.y.dev_mode, data |-> l.data,
                    source |-> l.source]
        /\ UNCHANGED <<repo, serverTip, env, serverTags, proc, lock>>

\* update(key, value, save=True) on the object
UpdateAndSave ==
    \E value \in UpdateValues :
        /\ yaml.operator # NoOperator
        /\ yaml.mtime[yaml.operator.path] < MaxMtime
        /\ yaml' = UpdateOf(yaml, value)
        /\ last' = [op |-> "update", path |-> yaml.operator.path, value |-> value,
                    pre |-> yaml]
        /\ UNCHANGED <<repo, serverTip, env, serverTags, proc, lock>>

\* the process ends and a new one starts, the files staying as they are
ProcessRestarts ==
    /\ yaml' = [yaml EXCEPT !.cache = NoYaml.cache, !.stamps = NoYaml.stamps,
                            !.dev_cache = NoYaml.dev_cache,
                            !.operator = NoOperator]
    /\ last' = [op |-> "restart"]
    /\ UNCHANGED <<repo, serverTip, env, serverTags, proc, lock>>

\* a thread enters `with try_acquire(lock, blocking)`; a blocking acquire
\* of a lock that is taken does not return
WithEnter(t) ==
    \E blocking \in BOOLEAN :
        /\ Len(lock.blocks[t]) < MaxDepth
        /\ blocking => lock.holder = NoOwner
        /\ lock' = TryAcquireEnter(lock, t)
        /\ last' = [op |-> "enter", thread |-> t, blocking |-> blocking,
                    pre |-> lock,
                    yielded |-> lock'.blocks[t][Len(lock'.blocks[t])]]
        /\ UNCHANGED <<repo, serverTip, env, serverTags, proc, yaml>>

\* the body of the innermost with-block of a thread ends or raises
WithExit(t) ==
    \E raised \in BOOLEAN :
        /\ lock.blocks[t] # <<>>
        /\ lock' = TryAcquireExit(lock, t)
        /\ last' = [op |-> "exit", thread |-> t, raised |-> raised,
                    pre |-> lock,
                    acquired |-> lock.blocks[t][Len(lock.blocks[t])]]
        /\ UNCHANGED <<repo, serverTip, env, serverTags, proc, yaml>>

\* one of the mode and controller switches of PcControllerBase is called
ControllerSwitch ==
    \E op \in {"enable_background_mode", "enable_foreground_mode",
                "enable_xbox", "enable_ds4", "enable_keyboard"} :
        /\ proc' = CASE op = "enable_background_mode" -> EnableBackgroundMode(proc)
                      [] op = "enable_foreground_mode" -> EnableForegroundMode(proc)
                      [] op = "enable_xbox" -> EnableXbox(proc)
                      [] op = "enable_ds4" -> EnableDs4(proc)
                      [] op = "enable_keyboard" -> EnableKeyboard(proc)
        /\ last' = [op |-> op, pre |-> proc]
        /\ UNCHANGED <<repo, serverTip, env, serverTags, yaml, lock>>

\* gamepad_click
GamepadClickCall ==
    \E gamepad_key \in GamepadKeys :
        /\ last' = [op |-> "gamepad_click", gamepad_key |-> gamepad_key,
                    pre |-> proc, out |-> GamepadClick(proc, gamepad_key)]
        /\ UNCHANGED <<repo, serverTip, env, serverTags, proc, yaml, lock>>

\* SingleInstanceLock.acquire of process p, up to the locking call
AcquireOpen(p) ==
    \E blocking \in BOOLEAN :
        /\ lock.pc[p] = "idle"
        /\ lock.path = NoFile => lock.created < MaxFiles
        /\ lock' = OpenLockFile(lock, p, blocking)
        /\ last' = [op |-> "open", proc |-> p]
        /\ UNCHANGED <<repo, serverTip, env, serverTags, proc, yaml>>

\* the locking call of acquire: granted when no process has the lock on the
\* file; otherwise it raises, at once when not blocking and after the
\* retries of LK_LOCK when blocking (or the process goes on waiting)
AcquireLock(p) ==
    /\ lock.pc[p] = "opened"
    /\ lock' = IF lock.owner[lock.h[p]] = NoOwner
               THEN LockGranted(lock, p) ELSE LockRefused(lock, p)
    /\ last' = [op |-> "acquire", proc |-> p, blocking |-> lock.blocking[p],
                raised |-> lock.owner[lock.h[p]] # NoOwner,
                other_held |-> \E q \in LockProcs \ {p} : lock.pc[q] = "held"]
    /\ UNCHANGED <<repo, serverTip, env, serverTags, proc, yaml>>

\* acquire after the refusal: _release_on_failure, then the raise
AcquireRaise(p) ==
    /\ lock.pc[p] = "lock_failed"
    /\ lock' = ReleaseOnFailure(lock, p)
    /\ last' = [op |-> "raise", proc |-> p]
    /\ UNCHANGED <<repo, serverTip, env, serverTags, proc, yaml>>

\* acquire called on the object that holds the lock
AcquireAgain(p) ==
    \E blocking \in BOOLEAN :
        /\ lock.pc[p] = "held"
        /\ lock' = AcquireEntry(lock, p, blocking)
        /\ last' = [op |-> "acquire_again", proc |-> p, blocking |-> blocking,
                    pre |-> lock]
        /\ UNCHANGED <<repo, serverTip, env, serverTags, proc, yaml>>

\* release called on the object that does not hold the lock
ReleaseIdle(p) ==
    /\ lock.pc[p] = "idle"
    /\ lock' = ReleaseEntry(lock, p)
    /\ last' = [op |-> "release_idle", proc |-> p, pre |-> lock]
    /\ UNCHANGED <<repo, serverTip, env, serverTags, proc, yaml>>

\* SingleInstanceLock.release of process p: the unlock
ReleaseUnlock(p) ==
    /\ lock.pc[p] = "held"
    /\ lock' = UnlockFile(lock, p)
    /\ last' = [op |-> "unlock", proc |-> p]
    /\ UNCHANGED <<repo, serverTip, env, serverTags, proc, yaml>>

\* release: the close
ReleaseClose(p) ==
    /\ lock.pc[p] = "unlocked"
    /\ lock' = CloseLockFile(lock, p)
    /\ last' = [op |-> "close", proc |-> p]
    /\ UNCHANGED <<repo, serverTip, env, serverTags, proc, yaml>>

\* release: the unlink
ReleaseUnlink(p) ==
    /\ lock.pc[p] = "closed"
    /\ lock' = UnlinkLockFile(lock, p)
    /\ last' = [op |-> "release", proc |-> p, removed |-> lock'.path # lock.path]
    /\ UNCHANGED <<repo, serverTip, env, serverTags, proc, yaml>>

(* --------------------- environment: user and server -------------------- *)

\* the user commits all changes on the current branch
UserCommit ==
    /\ repo.exists
    /\ \E c \in LocalCommits :
          /\ Parent(c) = HeadCommit(repo)
          /\ repo' = [repo EXCEPT !.br[repo.head] = c, !.wt = c, !.mod = FALSE]
    /\ last' = NoCall
    /\ UNCHANGED <<serverTip, env, serverTags, proc, yaml, lock>>

\* the user edits a tracked file, or adds or removes an untracked file
UserEdit ==
    /\ \/ /\ repo.exists
          /\ HeadCommit(repo) # NoCommit
          /\ ~repo.mod
          /\ repo' = [repo EXCEPT !.mod = TRUE]
       \/ repo' = [repo EXCEPT !.untracked = ~@]
    /\ last' = NoCall
    /\ UNCHANGED <<serverTip, env, serverTags, proc, yaml, lock>>

\* the user switches branch (creating it at HEAD when it does not exist)
UserSwitch ==
    /\ repo.exists
    /\ HeadCommit(repo) # NoCommit
    /\ ~repo.mod
    /\ \E b \in Branches \ {repo.head} :
          LET c == IF repo.br[b] = NoCommit THEN HeadCommit(repo) ELSE repo.br[b]
          IN repo' = [repo EXCEPT !.br[b] = c, !.head = b, !.wt = c]
    /\ last' = NoCall
    /\ UNCHANGED <<serverTip, env, serverTags, proc, yaml, lock>>

\* the target branch on the server moves (push, forced push, deletion)
ServerPush ==
    /\ \E c \in RemoteCommits \cup {NoCommit} :
          /\ c # serverTip
          /\ serverTip' = c
    /\ last' = NoCall
    /\ UNCHANGED <<repo, env, serverTags, proc, yaml, lock>>

\* the set of tags on the server changes
ServerTag ==
    /\ \E t \in TagNames :
          serverTags' = IF t \in serverTags THEN serverTags \ {t}
                        ELSE serverTags \cup {t}
    /\ last' = NoCall
    /\ UNCHANGED <<repo, serverTip, env, proc, yaml, lock>>

\* the user changes the settings
ChangeEnv ==
    /\ \E e \in SyncEnvSet :
          /\ e # env
          /\ env' = e
    /\ last' = NoCall
    /\ UNCHANGED <<repo, serverTip, serverTags, proc, yaml, lock>>

\* the user changes provider, transport or hosting proxy
ChangeUrlEnv ==
    /\ \E e \in EnvSet :
          /\ e # env
          /\ env' = e
    /\ last' = NoCall
    /\ UNCHANGED <<repo, serverTip, serverTags, proc, yaml, lock>>

\* the address _get_proxy_address returned is written back as the setting
StoreProxy ==
    /\ last.op = "_get_proxy_address"
    /\ last.out # NoProxy
    /\ env' = [env EXCEPT !.personal_proxy = last.out]
    /\ last' = [op |-> "store_proxy"]
    /\ UNCHANGED <<repo, serverTip, serverTags, proc, yaml, lock>>

\* the user switches the personal proxy on or off
TogglePersonalProxy ==
    /\ env' = [env EXCEPT !.is_personal_proxy = ~@]
    /\ last' = NoCall
    /\ UNCHANGED <<repo, serverTip, serverTags, proc, yaml, lock>>

\* the user deletes the .git directory; the files stay as untracked files and
\* the handles the process holds stay as they are
RemoveRepository ==
    /\ repo.exists
    /\ repo' = [NoRepo EXCEPT !.untracked = repo.untracked \/ repo.wt # NoCommit]
    /\ last' = NoCall
    /\ UNCHANGED <<serverTip, env, serverTags, proc, yaml, lock>>

\* the user edits a yml file on disk (the tracked one), or creates or deletes
\* the untracked one; the modification time of the file grows
UserEditsYaml ==
    /\ \E path \in YamlPaths :
          /\ yaml.mtime[path] < MaxMtime
          /\ yaml' = [yaml EXCEPT !.mtime[path] = @ + 1]
          /\ IF path = "none.yml"
             THEN repo' = [repo EXCEPT !.untracked = ~@]
             ELSE /\ repo.wt # NoCommit
                  /\ repo' = [repo EXCEPT !.mod = TRUE]
    /\ last' = NoCall
    /\ UNCHANGED <<serverTip, env, serverTags, proc, lock>>

\* the user switches yaml_dev_mode in config/env.yml
UserSetsDevMode ==
    /\ yaml' = [yaml EXCEPT !.dev_flag = ~@]
    /\ last' = NoCall
    /\ UNCHANGED <<repo, serverTip, env, serverTags, proc, lock>>

\* the process ends and a new one starts: the module-level caches are empty
RestartProcess ==
    /\ yaml' = [NoYaml EXCEPT !.dev_flag = yaml.dev_flag, !.mtime = yaml.mtime]
    /\ proc' = NoProc
    /\ last' = [op |-> "restart"]
    /\ UNCHANGED <<repo, serverTip, env, serverTags, lock>>

(* --------------------------- specifications --------------------------- *)

Init ==
    /\ repo \in {NoRepo, [NoRepo EXCEPT !.untracked = TRUE]}
    /\ serverTip \in RemoteCommits
    /\ env \in SyncEnvSet
    /\ last = NoCall
    /\ serverTags = {}
    /\ proc = NoProc
    /\ yaml = NoYaml
    /\ lock = NoLock

Next ==
    \/ FetchLatestCode
    \/ UserCommit
    \/ UserEdit
    \/ UserSwitch
    \/ ServerPush
    \/ ChangeEnv

Spec == Init /\ [][Next]_vars

\* the tag query on a repository that was cloned before
ClonedRepo ==
    [NoRepo EXCEPT !.exists = TRUE, !.url = "github_https", !.rt = 1,
                   !.br = [b \in Branches |-> IF b = TargetBranch THEN 1 ELSE NoCommit],
                   !.head = TargetBranch, !.wt = 1]

InitTag ==
    /\ repo \in {NoRepo, ClonedRepo}
    /\ serverTip = 1
    /\ env \in EnvSet
    /\ last = NoCall
    /\ serverTags = {}
    /\ proc = NoProc
    /\ yaml = NoYaml
    /\ lock = NoLock

NextTag ==
    \/ GetLatestTag
    \/ ServerTag

SpecTag == InitTag /\ [][NextTag]_vars

\* resolution and registration of the remote, on a work directory without
\* repository, on a cloned one and on one whose remote was removed
InitRemote ==
    /\ repo \in {NoRepo, ClonedRepo, [ClonedRepo EXCEPT !.url = ""]}
    /\ serverTip = 1
    /\ env \in EnvSet
    /\ last = NoCall
    /\ serverTags = {}
    /\ proc = NoProc
    /\ yaml = NoYaml
    /\ lock = NoLock

NextRemote ==
    \/ GetGitRepositoryCall
    \/ EnsureRemoteCall
    \/ ChangeUrlEnv

SpecRemote == InitRemote /\ [][NextRemote]_vars

\* normalisation of the personal proxy setting
InitProxy ==
    /\ repo = ClonedRepo
    /\ serverTip = 1
    /\ env \in ProxyEnvSet
    /\ last = NoCall
    /\ serverTags = {}
    /\ proc = NoProc
    /\ yaml = NoYaml
    /\ lock = NoLock

NextProxy ==
    \/ GetProxyAddressCall
    \/ ApplyProxyCall
    \/ StoreProxy
    \/ TogglePersonalProxy

SpecProxy == InitProxy /\ [][NextProxy]_vars

\* the readers of the history, on a directory without repository, on a
\* repository without commits and on clones of every published commit
InitRead ==
    /\ repo \in {NoRepo, [NoRepo EXCEPT !.exists = TRUE]}
               \cup {[ClonedRepo EXCEPT !.rt = c, !.br[TargetBranch] = c, !.wt = c]
                        : c \in RemoteCommits}
    /\ serverTip = RemoteLen
    /\ env \in {e \in SyncEnvSet : e.repository_type = "GitHub"
                                    /\ ~e.force_update /\ ~e.is_gh_proxy}
    /\ last = NoCall
    /\ serverTags = {}
    /\ proc = NoProc
    /\ yaml = NoYaml
    /\ lock = NoLock

NextRead ==
    \/ FetchPageCommit
    \/ FetchTotalCommit
    \/ CheckoutFileFromTree
    \/ UserCommit
    \/ UserEdit
    \/ UserSwitch

SpecRead == InitRead /\ [][NextRead]_vars

\* the check for updates, on the repositories of InitRead, the server's
\* branch at any published commit or deleted
InitLatest ==
    /\ repo \in {NoRepo, [NoRepo EXCEPT !.exists = TRUE]}
               \cup {[ClonedRepo EXCEPT !.rt = c, !.br[TargetBranch] = c, !.wt = c]
                        : c \in RemoteCommits}
    /\ serverTip \in RemoteCommits
    /\ env \in {e \in SyncEnvSet : ~e.force_update /\ ~e.is_gh_proxy}
    /\ last = NoCall
    /\ serverTags = {}
    /\ proc = NoProc
    /\ yaml = NoYaml
    /\ lock = NoLock

NextLatest ==
    \/ IsCurrentBranchLatest
    \/ UserCommit
    \/ UserEdit
    \/ UserSwitch
    \/ ServerPush

SpecLatest == InitLatest /\ [][NextLatest]_vars

\* update and rollback of an installation: clones of every published commit
\* and a repository without commits, the server's branch at any commit
InitRollback ==
    /\ repo \in {[NoRepo EXCEPT !.exists = TRUE]}
               \cup {[ClonedRepo EXCEPT !.rt = c, !.br[TargetBranch] = c, !.wt = c]
                        : c \in RemoteCommits}
    /\ serverTip \in RemoteCommits
    /\ env \in {e \in SyncEnvSet : e.repository_type = "GitHub" /\ ~e.is_gh_proxy}
    /\ last = NoCall
    /\ serverTags = {}
    /\ proc = NoProc
    /\ yaml = NoYaml
    /\ lock = NoLock

NextRollback ==
    \/ ResetToCommit
    \/ FetchLatestCode
    \/ UserEdit
    \/ UserCommit

SpecRollback == InitRollback /\ [][NextRollback]_vars

\* one process with the application's GitService and the one of the
\* configuration loader, from a work directory without repository
InitHandle ==
    /\ repo = NoRepo
    /\ serverTip = RemoteLen
    /\ env \in {e \in SyncEnvSet : e.repository_type = "GitHub"}
    /\ last = NoCall
    /\ serverTags = {}
    /\ proc = NoProc
    /\ yaml = NoYaml
    /\ lock = NoLock

NextHandle ==
    \/ FetchLatestCode
    \/ CheckoutFileFromTree
    \/ RemoveRepository

SpecHandle == InitHandle /\ [][NextHandle]_vars

\* the configuration loader, on the repositories of InitRead
InitYaml ==
    /\ repo \in {NoRepo, [NoRepo EXCEPT !.exists = TRUE]}
               \cup {[ClonedRepo EXCEPT !.rt = c, !.br[TargetBranch] = c, !.wt = c]
                        : c \in RemoteCommits}
    /\ serverTip = RemoteLen
    /\ env \in {e \in SyncEnvSet : e.repository_type = "GitHub"
                                    /\ ~e.force_update /\ ~e.is_gh_proxy}
    /\ last = NoCall
    /\ serverTags = {}
    /\ proc = NoProc
    /\ yaml = NoYaml
    /\ lock = NoLock

NextYaml ==
    \/ YamlOperatorInit
    \/ UserEditsYaml
    \/ UserSetsDevMode
    \/ RestartProcess
    \/ UserCommit

SpecYaml == InitYaml /\ [][NextYaml]_vars

\* several processes, each with one SingleInstanceLock of the same name
\* the loader in a clone whose HEAD has config.yml, the files written by
\* another program while it runs, developer mode on or off
InitHot ==
    /\ repo = ClonedRepo
    /\ serverTip = RemoteLen
    /\ env \in {e \in SyncEnvSet : e.repository_type = "GitHub"
                                    /\ ~e.force_update /\ ~e.is_gh_proxy}
    /\ last = NoCall
    /\ serverTags = {}
    /\ proc = NoProc
    /\ yaml \in {HotYaml, [HotYaml EXCEPT !.dev_flag = FALSE]}
    /\ lock = NoLock

NextHot ==
    \/ ConstructBegin
    \/ ConstructRead
    \/ ConstructStamp
    \/ FileModified

SpecHot == InitHot /\ [][NextHot]_vars

\* the configuration written by the application, in a clone whose HEAD has
\* config.yml and in a directory without repository
InitDurable ==
    /\ repo \in {NoRepo, ClonedRepo}
    /\ serverTip = RemoteLen
    /\ env \in {e \in SyncEnvSet : e.repository_type = "GitHub"
                                    /\ ~e.force_update /\ ~e.is_gh_proxy}
    /\ last = NoCall
    /\ serverTags = {}
    /\ proc = NoProc
    /\ yaml \in {DurableYaml, [DurableYaml EXCEPT !.dev_flag = FALSE]}
    /\ lock = NoLock

NextDurable ==
    \/ ConstructOperator
    \/ UpdateAndSave
    \/ ProcessRestarts
    \/ UserSetsDevMode

SpecDurable == InitDurable /\ [][NextDurable]_vars

\* threads sharing one threading.Lock through try_acquire
InitTry ==
    /\ repo = NoRepo
    /\ serverTip = 1
    /\ env \in {e \in SyncEnvSet : e.repository_type = "GitHub"
                                    /\ ~e.force_update /\ ~e.is_gh_proxy}
    /\ last = NoCall
    /\ serverTags = {}
    /\ proc = NoProc
    /\ yaml = NoYaml
    /\ lock = NoMutex

NextTry ==
    \E t \in Threads :
        \/ WithEnter(t)
        \/ WithExit(t)

SpecTry == InitTry /\ [][NextTry]_vars

\* a PcControllerBase, the virtual gamepad package installed or not
InitController ==
    /\ repo = NoRepo
    /\ serverTip = 1
    /\ env \in {e \in SyncEnvSet : e.repository_type = "GitHub"
                                    /\ ~e.force_update /\ ~e.is_gh_proxy}
    /\ last = NoCall
    /\ serverTags = {}
    /\ proc \in {NoController, [NoController EXCEPT !.vgamepad = TRUE]}
    /\ yaml = NoYaml
    /\ lock = NoLock

NextController ==
    \/ ControllerSwitch
    \/ GamepadClickCall

SpecController == InitController /\ [][NextController]_vars

InitLock ==
    /\ repo = NoRepo
    /\ serverTip = 1
    /\ env \in {e \in SyncEnvSet : e.repository_type = "GitHub"
                                    /\ ~e.force_update /\ ~e.is_gh_proxy}
    /\ last = NoCall
    /\ serverTags = {}
    /\ proc = NoProc
    /\ yaml = NoYaml
    /\ lock = NoLock

NextLock ==
    \E p \in LockProcs :
        \/ AcquireOpen(p)
        \/ AcquireLock(p)
        \/ AcquireRaise(p)
        \/ AcquireAgain(p)
        \/ ReleaseIdle(p)
        \/ ReleaseUnlock(p)
        \/ ReleaseClose(p)
        \/ ReleaseUnlink(p)

SpecLock == InitLock /\ [][NextLock]_vars

\* clone, then the operations of the steady state that talk to the remote
InitSteady ==
    /\ repo = NoRepo
    /\ serverTip \in RemoteCommits
    /\ env \in {e \in SyncEnvSet : e.repository_type = "GitHub" /\ ~e.force_update}
    /\ last = NoCall
    /\ serverTags = {}
    /\ proc = NoProc
    /\ yaml = NoYaml
    /\ lock = NoLock

NextSteady ==
    \/ FetchLatestCode
    \/ IsCurrentBranchLatest
    \/ GetLatestTag
    \/ RemoveRepository

SpecSteady == InitSteady /\ [][NextSteady]_vars

(* ------------------------------ properties ---------------------------- *)

\* the state right after fetch_latest_code ran on an existing repository
\* (env still holds the settings of that run: ChangeEnv clears `last`)
AfterSync == last.op = "fetch_latest_code" /\ last.path = "checkout"

\* the run configured the remote, fetched and could query the status
RunReachedSync ==
    /\ GetGitRepository(env, FALSE) # ""
    /\ last.netOk
    /\ ~last.statusRaises

\* repo.status() was empty before the run
PreClean == IsCurrentBranchClean(last.pre, FALSE) = "True"

\* C1: with forced-update disabled, a run of fetch_latest_code on an existing
\* repository moves the target branch tip and HEAD only to descendants of
\* where they were, and keeps an uncommitted modification.
C1_NoLocalWorkDiscarded ==
    (AfterSync /\ ~env.force_update) =>
        /\ last.pre.br[TargetBranch] # NoCommit =>
              IsAncestorOrSelf(last.pre.br[TargetBranch], repo.br[TargetBranch])
        /\ HeadCommit(last.pre) # NoCommit =>
              IsAncestorOrSelf(HeadCommit(last.pre), HeadCommit(repo))
        /\ last.pre.mod => repo.mod

\* C2: clean tree, local HEAD commit L an ancestor of the fetched
\* remote-tracking commit R, forced-update disabled: the run succeeds and
\* HEAD is at R.
C2_FastForwardSucceeds ==
    (/\ AfterSync /\ ~env.force_update /\ RunReachedSync /\ PreClean
     /\ HeadCommit(last.pre) # NoCommit
     /\ repo.rt # NoCommit
     /\ IsAncestorOrSelf(HeadCommit(last.pre), repo.rt))
    => (last.res.success /\ HeadCommit(repo) = repo.rt)

\* C3: a dirty work tree with forced-update disabled makes the run fail, with
\* the dirty-tree refusal once the fetch went through, and the modification,
\* the branch tips and HEAD stay as they were.
C3_DirtyTreeGuard ==
    (AfterSync /\ ~env.force_update /\ (last.pre.mod \/ last.pre.untracked)) =>
        /\ ~last.res.success
        /\ (GetGitRepository(env, FALSE) # "" /\ last.netOk)
              => (last.res.msg = "dirty_no_force")
        /\ repo.mod = last.pre.mod
        /\ repo.untracked = last.pre.untracked
        /\ repo.wt = last.pre.wt
        /\ repo.br = last.pre.br
        /\ repo.head = last.pre.head

C3_Witness ==
    /\ AfterSync /\ ~env.force_update /\ last.pre.mod
    /\ last.res.msg = "dirty_no_force"
    /\ repo.mod
    /\ repo.rt # last.pre.rt

\* C4: HEAD at a commit A that is not an ancestor of the fetched
\* remote-tracking commit B, forced-update enabled: the run succeeds and HEAD
\* is at B, for a clean and for a dirty tree.
C4_ForcedConvergence ==
    (/\ AfterSync /\ env.force_update
     /\ GetGitRepository(env, FALSE) # "" /\ last.netOk
     /\ HeadCommit(last.pre) # NoCommit
     /\ repo.rt # NoCommit
     /\ ~IsAncestorOrSelf(HeadCommit(last.pre), repo.rt))
    => (last.res.success /\ HeadCommit(repo) = repo.rt)

C4_Witness ==
    /\ AfterSync /\ env.force_update /\ RunReachedSync /\ PreClean
    /\ HeadCommit(last.pre) \in LocalCommits
    /\ ~IsAncestorOrSelf(HeadCommit(last.pre), repo.rt)
    /\ last.res.code = "FORCED_RESET"
    /\ HeadCommit(repo) = repo.rt

\* C5: two consecutive runs on an existing repository, nothing changed in
\* between: both succeed and the second leaves HEAD where the first put it.
C5_Idempotent ==
    (/\ AfterSync /\ last.prev.called /\ last.prev.path = "checkout"
     /\ RunReachedSync /\ last.prev.ok)
    => (/\ last.prev.success
        /\ last.res.success
        /\ HeadCommit(repo) = last.prev.head)

\* C6: the run returns NEED_MANUAL_REBASE exactly when the tree is clean,
\* forced-update is disabled and the local target branch tip is not an
\* ancestor of the fetched remote-tracking tip.
C6_ManualRebaseOnlyWhenDiverged ==
    AfterSync =>
        ((last.res.code = "NEED_MANUAL_REBASE") <=>
            (/\ ~env.force_update /\ RunReachedSync /\ PreClean
             /\ last.pre.br[TargetBranch] # NoCommit
             /\ repo.rt # NoCommit
             /\ ~IsAncestorOrSelf(last.pre.br[TargetBranch], repo.rt)))

\* C7: fetch succeeded, no remote-tracking ref, clean tree, valid HEAD: the
\* run succeeds with REMOTE_BRANCH_MISSING and every local branch and HEAD
\* keep their commit.
C7_MissingRemoteKeepsBranches ==
    (/\ AfterSync /\ RunReachedSync /\ PreClean
     /\ HeadCommit(last.pre) # NoCommit
     /\ repo.rt = NoCommit)
    => (/\ last.res.success
        /\ last.res.code = "REMOTE_BRANCH_MISSING"
        /\ \A b \in Branches :
              last.pre.br[b] # NoCommit => repo.br[b] = last.pre.br[b]
        /\ HeadCommit(repo) = HeadCommit(last.pre))

\* C8: fetch succeeded, remote-tracking ref present, HEAD without a commit:
\* with forced-update the run resets to the remote commit and succeeds with
\* RESET_HEAD, without it the run fails with HEAD_MISSING.
C8_HeadMissing ==
    (/\ AfterSync /\ GetGitRepository(env, FALSE) # "" /\ last.netOk
     /\ HeadCommit(last.pre) = NoCommit
     /\ repo.rt # NoCommit)
    => IF env.force_update
       THEN /\ last.res.success
            /\ last.res.code = "RESET_HEAD"
            /\ HeadCommit(repo) = repo.rt
       ELSE /\ ~last.res.success
            /\ last.res.code = "HEAD_MISSING"

C10_NoExceptionEscapes ==
    last.op # "none" => ~last.raised

\* the urls of project_config, and the url f'{gh_proxy_url}/{repo}'
DirectHttpsUrl(t) == IF t = "GitHub" THEN "github_https" ELSE "gitee_https"

SshUrl(t) == IF t = "GitHub" THEN "github_ssh" ELSE "gitee_ssh"

ThroughHostingProxy(u) ==
    IF u = "github_https" THEN "gh_proxy_url/github_https"
    ELSE "gh_proxy_url/gitee_https"

\* C11 as stated: with HTTPS the direct url of the provider, through the
\* hosting proxy exactly when the proxy is enabled and for_clone is true, for
\* every provider; with SSH the ssh url; "" for an unknown provider.
C11_ProxyForEveryProvider ==
    last.op = "get_git_repository" =>
        last.url =
            IF env.repository_type \notin {"GitHub", "Gitee"} THEN ""
            ELSE IF env.git_method = "SSH" THEN SshUrl(env.repository_type)
            ELSE IF env.is_gh_proxy /\ last.for_clone
            THEN ThroughHostingProxy(DirectHttpsUrl(env.repository_type))
            ELSE DirectHttpsUrl(env.repository_type)

\* C11 amended: the hosting proxy is used for provider GitHub only; with
\* provider Gitee and HTTPS the direct url is returned whatever the flags.
C11_GetGitRepository ==
    last.op = "get_git_repository" =>
        last.url =
            IF env.repository_type \notin {"GitHub", "Gitee"} THEN ""
            ELSE IF env.git_method = "SSH" THEN SshUrl(env.repository_type)
            ELSE IF env.repository_type = "GitHub" /\ env.is_gh_proxy
                    /\ last.for_clone
            THEN ThroughHostingProxy(DirectHttpsUrl(env.repository_type))
            ELSE DirectHttpsUrl(env.repository_type)

C11_Witness ==
    /\ last.op = "get_git_repository"
    /\ env.repository_type = "GitHub" /\ env.git_method = "HTTPS"
    /\ env.is_gh_proxy /\ last.for_clone
    /\ last.url = "gh_proxy_url/github_https"

\* C12: a call of _ensure_remote that returns a remote leaves 'origin' with
\* the url resolved for the call (created, updated in place, or untouched);
\* with an empty url or no repository it returns None, raises nothing and
\* changes nothing.
C12_EnsureRemote ==
    last.op = "_ensure_remote" =>
        LET url == GetGitRepository(env, last.for_clone) IN
        /\ ~last.raised
        /\ last.ok <=> (url # "" /\ last.pre.exists)
        /\ last.ok =>
              /\ repo = [last.pre EXCEPT !.url = url]
              /\ last.log = IF last.pre.url = "" THEN <<"create_remote">>
                            ELSE IF last.pre.url = url THEN <<>>
                            ELSE <<"set_url">>
        /\ ~last.ok => repo = last.pre

C12_Witness ==
    /\ last.op = "_ensure_remote"
    /\ last.ok
    /\ last.log = <<"set_url">>
    /\ repo.url = GetGitRepository(env, last.for_clone)
    /\ repo.url # last.pre.url

\* t is s without its leading and trailing white space, and is not empty
IsTrimOf(t, s) ==
    \E i \in 1..Len(s), j \in 1..Len(s) :
        /\ i <= j
        /\ t = SubSeq(s, i, j)
        /\ s[i] # "SP" /\ s[j] # "SP"
        /\ \A k \in 1..Len(s) : (k < i \/ k > j) => s[k] = "SP"

IsBlank(s) == \A k \in 1..Len(s) : s[k] = "SP"

\* C13: _get_proxy_address returns None when the personal proxy is off or
\* blank; otherwise the trimmed value when it starts with http://, https://
\* or socks5://, and http:// followed by the trimmed value otherwise; called
\* on an address it returned, it returns that address.
C13_ProxyAddress ==
    last.op = "_get_proxy_address" =>
        /\ (~env.is_personal_proxy \/ IsBlank(env.personal_proxy))
              => last.out = NoProxy
        /\ (env.is_personal_proxy /\ ~IsBlank(env.personal_proxy)) =>
              \E t \in {last.out, Tail(last.out)} :
                 /\ IsTrimOf(t, env.personal_proxy)
                 /\ last.out = IF t[1] \in {"http://", "https://", "socks5://"}
                               THEN t ELSE <<"http://">> \o t
        /\ (last.normalized /\ env.is_personal_proxy)
              => last.out = env.personal_proxy

C13_Witness ==
    /\ last.op = "_get_proxy_address"
    /\ last.normalized
    /\ env.is_personal_proxy
    /\ last.out = <<"http://", "host:port">>

\* the run recorded in last, had _apply_proxy not failed
RunWithProxyApplied ==
    IF last.path = "clone"
    THEN CloneRepository(last.pre, env, last.initOk, last.netOk, "no")
    ELSE CheckoutLatestProjectBranch(last.pre, env, last.netOk,
                                     last.statusRaises, "no")

\* C14: when _apply_proxy fails inside a run of fetch_latest_code, the fetch
\* is attempted right after it, and result, refs, HEAD and working tree of the
\* run are those of the run in which _apply_proxy succeeds.
C14_ProxyFailureNeverAborts ==
    (last.op = "fetch_latest_code" /\ last.proxyFail # "no") =>
        /\ \A k \in DOMAIN last.log :
              last.log[k] = "apply_proxy_failed" =>
                  /\ k < Len(last.log)
                  /\ last.log[k + 1] \in {"fetch_ok", "fetch_fail"}
        /\ \E o \in {RunWithProxyApplied} :
              /\ last.res = o.res
              /\ last.raised = o.raised
              /\ repo = [o.g EXCEPT !.http_proxy = repo.http_proxy,
                                    !.https_proxy = repo.https_proxy]

C14_Witness ==
    /\ last.op = "fetch_latest_code"
    /\ last.proxyFail = "config"
    /\ \E k \in DOMAIN last.log :
          /\ last.log[k] = "apply_proxy_failed"
          /\ k < Len(last.log)
          /\ last.log[k + 1] = "fetch_ok"
    /\ last.res.success
    /\ repo.rt = serverTip

\* the commit a recorded checkout_file_from_tree call read
ReadCommit ==
    IF last.ref = "None" THEN HeadCommit(last.pre)
    ELSE RevParseSingle(last.pre, last.ref)

\* the path is a tracked file or directory of the working tree
InWorkTree(g, path) == g.wt # NoCommit /\ EntryKind(g.wt, path) # "absent"

\* the path is in the tree of the commit read and not in the working tree
OnlyInHistory ==
    /\ ReadCommit # NoCommit
    /\ EntryKind(ReadCommit, last.path) # "absent"
    /\ ~InWorkTree(last.pre, last.path)

CommittedContent ==
    [ok |-> TRUE, content |-> <<"text of", BlobData(ReadCommit, last.path)>>]

\* C15 as stated: checkout_file_from_tree changes nothing of the repository
\* (working tree, HEAD, refs), and for a path in the commit's tree that is not
\* in the working tree it returns the committed content.
C15_TreeReadReturnsContent ==
    last.op = "checkout_file_from_tree" =>
        /\ repo = last.pre
        /\ OnlyInHistory => last.res = CommittedContent

\* C15 amended: checkout_file_from_tree changes nothing of the repository,
\* and for a path in the commit's tree that is not in the working tree it
\* returns the committed content when the entry is a file whose bytes decode
\* as UTF-8 or GBK, and None when it is a directory or decodes as neither.
C15_TreeReadPure ==
    last.op = "checkout_file_from_tree" =>
        /\ repo = last.pre
        /\ ~last.raised
        /\ OnlyInHistory =>
              last.res = IF EntryKind(ReadCommit, last.path) \in {"utf8", "gbk"}
                         THEN CommittedContent ELSE NoContent

C15_Witness ==
    /\ last.op = "checkout_file_from_tree"
    /\ last.path = "legacy.yml"
    /\ OnlyInHistory
    /\ repo.wt # NoCommit
    /\ last.res = CommittedContent

\* the records of positions lo..hi of a walk
WalkSlice(walk, lo, hi) ==
    [i \in 1..(IF hi >= lo THEN hi - lo + 1 ELSE 0) |-> GitLogOf(walk[lo + i - 1])]

\* pages first..last_page of size page_size, one after the other
RECURSIVE ConcatPages(_, _, _, _)
ConcatPages(g, first, last_page, page_size) ==
    IF first > last_page THEN <<>>
    ELSE FetchPageCommitOf(g, first, page_size)
            \o ConcatPages(g, first + 1, last_page, page_size)

\* C16: fetch_page_commit(p, page_size) returns the commits of positions
\* p*page_size .. p*page_size+page_size-1 of the walk from HEAD (those that
\* exist), in the order of the walk; the pages 0, 1, 2, ... one after the
\* other are the walk.
C16_Pagination ==
    last.op = "fetch_page_commit" =>
        LET walk == Walk(HeadCommit(repo))
            lo == last.page_num * last.page_size + 1
            hi == IF lo + last.page_size - 1 <= Len(walk)
                  THEN lo + last.page_size - 1 ELSE Len(walk)
        IN /\ last.res = WalkSlice(walk, lo, hi)
           /\ ConcatPages(repo, 0, Len(walk), last.page_size)
                 = WalkSlice(walk, 1, Len(walk))

C16_Witness ==
    /\ last.op = "fetch_page_commit"
    /\ last.page_num = 1
    /\ last.page_size = 1
    /\ Len(Walk(HeadCommit(repo))) = 2
    /\ last.res = <<GitLogOf(Parent(HeadCommit(repo)))>>

\* the listing of a recorded get_latest_tag call succeeded and was sorted
TagsScanned ==
    /\ last.op = "get_latest_tag"
    /\ last.listed
    /\ ~last.raised

\* the tag of S lowest in version order, "None" for an empty S
LowestOf(S) ==
    IF S = {} THEN "None"
    ELSE CHOOSE t \in S : \A u \in S : VersionKey(t) <= VersionKey(u)

C18_AbsenceMeansNoSuchTag ==
    TagsScanned =>
        /\ last.tags.beta = "None" => \A t \in last.all : ~HasBetaMarker(t)
        /\ last.tags.stable = "None" => \A t \in last.all : HasBetaMarker(t)

\* C19: is_current_branch_latest returns True exactly when remote
\* configuration and fetch succeeded, the remote-tracking ref of the target
\* branch exists, and HEAD's commit is the remote-tracking commit or has the
\* same tree; it returns False otherwise and raises nothing.
C19_LatestIffSameCommitOrTree ==
    last.op = "is_current_branch_latest" =>
        LET fetched == /\ GetGitRepository(env, FALSE) # ""
                       /\ last.pre.exists
                       /\ last.netOk
            local == HeadCommit(repo)
        IN /\ ~last.raised
           /\ last.res.success <=>
                 /\ fetched
                 /\ repo.rt # NoCommit
                 /\ local # NoCommit
                 /\ (local = repo.rt \/ TreeOf(local) = TreeOf(repo.rt))
           /\ fetched => repo.rt = IF serverTip # NoCommit THEN serverTip
                                   ELSE last.pre.rt

C19_Witness ==
    /\ last.op = "is_current_branch_latest"
    /\ last.res.success
    /\ HeadCommit(repo) # repo.rt
    /\ TreeOf(HeadCommit(repo)) = TreeOf(repo.rt)

\* C20: at every moment the process has at most one live repository handle:
\* the service instances share it, and after a refresh none of them keeps a
\* discarded one.
C20_OneLiveHandle ==
    Cardinality(LiveHandles(proc)) <= 1

\* the progress_callback invocations among the steps of a run
IsMilestone(x) == x \in {"p-1", "p0.2", "p0.4", "p0.6", "p0.8", "p1.0"}

Milestones(log) == SelectSeq(log, IsMilestone)

IsPrefix(s, t) == Len(s) <= Len(t) /\ s = SubSeq(t, 1, Len(s))

\* the milestones of checkout_latest_project_branch after its start
CheckoutMilestones == <<"p0.2", "p0.4", "p0.6", "p0.8", "p1.0">>

\* C21 as stated: a run of checkout_latest_project_branch invokes the callback
\* with start, 0.2, 0.4, 0.6, 0.8, 1.0 in this order; a failing run emits a
\* prefix, and 1.0 is emitted exactly when the run succeeds.
C21_MilestonesFromStart ==
    AfterSync =>
        /\ IsPrefix(Milestones(last.log), <<"p-1">> \o CheckoutMilestones)
        /\ last.res.success <=>
              Milestones(last.log) = <<"p-1">> \o CheckoutMilestones

\* C21 amended: the callback is invoked with 0.2, 0.4, 0.6, 0.8, 1.0 in this
\* order (no invocation marks the start), each at most once; a failing run
\* emits a proper prefix, and 1.0 is emitted exactly when the run succeeds.
C21_Milestones ==
    AfterSync =>
        /\ IsPrefix(Milestones(last.log), CheckoutMilestones)
        /\ last.res.success <=> Milestones(last.log) = CheckoutMilestones

C21_Witness ==
    /\ AfterSync
    /\ last.res.success
    /\ Milestones(last.log) = CheckoutMilestones

\* a recorded YamlOperator construction outside developer mode that found
\* nothing cached for its path
LoadedFresh ==
    /\ last.op = "YamlOperator"
    /\ ~last.dev_mode
    /\ last.pre.cache[last.path] = NoData

\* HEAD has the file of the recorded construction
InHead ==
    /\ repo.exists
    /\ HeadCommit(repo) # NoCommit
    /\ EntryKind(HeadCommit(repo), last.path) = "utf8"

\* C22: outside developer mode and with an empty cache, the loader takes the
\* committed HEAD content only when a repository is present and the file on
\* disk has no pending edits; when the file on disk differs from the
\* committed version, the data loaded is the content on disk.
C22_DiskWinsWhenEdited ==
    LoadedFresh =>
        LET disk == DiskVersion(repo, last.path) IN
        /\ last.source = "git" =>
              (InHead /\ disk = TreeOf(HeadCommit(repo)))
        /\ (InHead /\ disk # NoCommit /\ disk # TreeOf(HeadCommit(repo))) =>
              last.data = SafeLoad(ReadText(last.path, disk))

\* the processes for which acquire returned and release has not begun
Holders == {p \in LockProcs : lock.pc[p] = "held"}

\* the processes that have the operating system's lock on some lock file
OsLockers == {p \in LockProcs : \E f \in 1..MaxFiles : lock.owner[f] = p}

\* C23: at most one process holds the lock at any time, also across the
\* unlock, close and unlink of a release; a non-blocking acquire made while
\* another process holds the lock raises SingleInstanceError.
C23_MutualExclusion ==
    /\ Cardinality(Holders) <= 1
    /\ Cardinality(OsLockers) <= 1
    /\ Holders \subseteq OsLockers
    /\ (last.op = "acquire" /\ ~last.blocking /\ last.other_held) => last.raised

C23_Witness ==
    /\ last.op = "acquire"
    /\ ~last.blocking
    /\ last.raised
    /\ Holders # {}
    /\ lock.created >= 2

\* the result codes of the taxonomy
ClosedCodes ==
    {"FETCH_ERROR", "REMOTE_CONFIG_ERROR", "NEED_MANUAL_RESOLUTION",
     "HEAD_MISSING", "RESET_HEAD", "FAST_FORWARD", "FORCED_RESET",
     "NEED_MANUAL_REBASE", "REMOTE_BRANCH_MISSING", "SYNC_ERROR"}

\* the recorded run came to its fetch step
ReachedFetch ==
    \E k \in DOMAIN last.log : last.log[k] \in {"fetch_ok", "fetch_fail"}

\* the GitOperationResult _fetch_remote built in the recorded run
FetchStepResult ==
    LET clone == last.path = "clone"
        er == EnsureRemote(IF clone THEN [last.pre EXCEPT !.exists = TRUE]
                           ELSE last.pre, env, clone)
    IN FetchRemote(er.g, env, last.netOk, last.proxyFail).res

\* C24: every GitOperationResult built in a run of fetch_latest_code has a
\* code of the taxonomy, and every failing outcome of the run has one.
C24_ClosedCodeSet ==
    last.op = "fetch_latest_code" =>
        /\ ReachedFetch => FetchStepResult.code \in ClosedCodes
        /\ last.res.code # "NONE" => last.res.code \in ClosedCodes
        /\ ~last.res.success => last.res.code \in ClosedCodes

\* in the recorded run every change of the url of 'origin' came before the
\* fetch
UrlSetBeforeFetch ==
    \A k \in DOMAIN last.log, j \in DOMAIN last.log :
        (/\ last.log[k] \in {"set_url", "create_remote"}
         /\ last.log[j] \in {"fetch_ok", "fetch_fail"}) => k < j

\* C25: the fetch of checkout_latest_project_branch and of
\* is_current_branch_latest and the listing of get_latest_tag are made with
\* 'origin' at the url resolved with for_clone = false, set before the fetch;
\* only the fetch of a clone is made at the url resolved with for_clone = true.
C25_SteadyStateUrl ==
    /\ (/\ last.op \in {"fetch_latest_code", "is_current_branch_latest"}
        /\ ReachedFetch) =>
           /\ repo.url = GetGitRepository(env, last.op = "fetch_latest_code"
                                               /\ last.path = "clone")
           /\ UrlSetBeforeFetch
           /\ last.pre.url # repo.url =>
                 \E k \in DOMAIN last.log :
                     last.log[k] \in {"set_url", "create_remote"}
    /\ (last.op = "get_latest_tag" /\ last.pre.exists) =>
           repo.url = GetGitRepository(env, FALSE)

C25_Witness ==
    /\ last.op = "fetch_latest_code" /\ last.path = "checkout"
    /\ env.is_gh_proxy
    /\ last.pre.url = "gh_proxy_url/github_https"
    /\ repo.url = "github_https"
    /\ \E k \in DOMAIN last.log : last.log[k] = "fetch_ok"

\* C26: after a call of _apply_proxy in which nothing fails, http.proxy and
\* https.proxy are both the normalized address, or both absent when no proxy
\* is configured; a second call with the same settings changes nothing.
C26_ApplyProxy ==
    (last.op = "_apply_proxy" /\ last.proxyFail = "no") =>
        /\ repo.http_proxy = GetProxyAddress(env)
        /\ repo.https_proxy = GetProxyAddress(env)
        /\ repo = [last.pre EXCEPT !.http_proxy = GetProxyAddress(env),
                                   !.https_proxy = GetProxyAddress(env)]
        /\ last.repeated => repo = last.pre

C26_Witness ==
    /\ last.op = "_apply_proxy" /\ last.proxyFail = "no"
    /\ last.repeated
    /\ repo.http_proxy = <<"http://", "host:port">>
    /\ repo.https_proxy = <<"http://", "host:port">>

\* C27: fetch_total_commit returns 0 when HEAD has no commit and else the
\* number of commits reachable from HEAD, which is the number of records of
\* the pages 0, 1, 2, ... of fetch_page_commit together, whatever the page
\* size; it changes nothing of the repository.
C27_TotalCommit ==
    last.op = "fetch_total_commit" =>
        /\ repo = last.pre
        /\ HeadCommit(repo) = NoCommit => last.res = 0
        /\ last.res = Len(Walk(HeadCommit(repo)))
        /\ \A page_size \in 1..MaxPageSize :
              last.res = Len(ConcatPages(repo, 0, RemoteLen + NumLocal, page_size))

C27_Witness ==
    /\ last.op = "fetch_total_commit"
    /\ HeadCommit(repo) \in LocalCommits
    /\ last.res = 2
    /\ Len(FetchPageCommitOf(repo, 0, 1)) = 1
    /\ Len(FetchPageCommitOf(repo, 1, 1)) = 1

\* the run recorded follows a successful reset_to_commit to an ancestor of
\* the server's branch tip, nothing in between, nothing failed in it and no
\* untracked file lies in the work tree
AfterRollback ==
    /\ last.op = "fetch_latest_code"
    /\ "rolled_back" \in DOMAIN last.prev
    /\ last.prev.rolled_back
    /\ IsAncestorOrSelf(last.prev.to, serverTip)
    /\ last.netOk /\ ~last.statusRaises /\ last.proxyFail = "no"
    /\ ~last.pre.untracked

\* C28: reset_to_commit(c) returns True and leaves HEAD and the work tree
\* at c when c resolves, and returns False changing nothing when it does not;
\* the fetch_latest_code that follows a rollback to an ancestor of the remote
\* tip, forced-update disabled, succeeds with HEAD at the remote tip.
C28_Rollback ==
    /\ last.op = "reset_to_commit" =>
          IF HasObject(last.pre, last.commit_id)
          THEN /\ last.res
               /\ HeadCommit(repo) = last.commit_id
               /\ repo.wt = last.commit_id
               /\ ~repo.mod
          ELSE /\ ~last.res
               /\ repo = last.pre
    /\ (AfterRollback /\ ~env.force_update) =>
          /\ last.res.success
          /\ HeadCommit(repo) = serverTip

\* the steps of a run that move a branch or HEAD or write the work tree
LocalWrites == {"checkout", "set_target", "set_head", "create_branch", "reset_hard"}

\* the fetch of the recorded run went through
FetchSucceeded == \E k \in DOMAIN last.log : last.log[k] = "fetch_ok"

\* C29: a run of checkout_latest_project_branch whose remote configuration
\* or fetch fails returns failure and leaves every local branch, HEAD and the
\* work tree as they were; in every run, a checkout, a move of a branch or of
\* HEAD and a hard reset come only after the fetch of that run succeeded.
C29_NothingBeforeFetch ==
    AfterSync =>
        /\ ~FetchSucceeded =>
              /\ ~last.res.success
              /\ repo.br = last.pre.br
              /\ repo.head = last.pre.head
              /\ repo.wt = last.pre.wt
              /\ repo.mod = last.pre.mod
              /\ repo.untracked = last.pre.untracked
              /\ repo.rt = last.pre.rt
        /\ \A k \in DOMAIN last.log :
              last.log[k] \in LocalWrites =>
                  \E j \in 1..(k - 1) : last.log[j] = "fetch_ok"

C29_Witness ==
    /\ AfterSync
    /\ env.force_update
    /\ last.pre.mod
    /\ last.pre.head # TargetBranch
    /\ last.pre.rt # NoCommit
    /\ \E k \in DOMAIN last.log : last.log[k] = "fetch_fail"
    /\ ~last.res.success
    /\ repo.mod

\* C30: when fetch_latest_code returns success and the remote-tracking branch
\* of the target branch exists, HEAD names the local target branch, that
\* branch is at the remote-tracking commit, and no tracked file of the work
\* tree differs from that commit.
C30_SuccessMeansSynced ==
    (/\ last.op = "fetch_latest_code"
     /\ last.res.success
     /\ repo.rt # NoCommit) =>
        /\ repo.head = TargetBranch
        /\ repo.br[TargetBranch] = repo.rt
        /\ repo.wt = repo.rt
        /\ ~repo.mod

C30_Witness ==
    /\ AfterSync
    /\ last.res.success
    /\ last.pre.head # TargetBranch
    /\ last.pre.mod
    /\ last.pre.br[TargetBranch] # NoCommit
    /\ last.pre.br[TargetBranch] # repo.rt
    /\ repo.rt # NoCommit
    /\ repo.head = TargetBranch

\* the run recorded follows a clone that failed after init_repository, the
\* server's target branch exists and nothing fails in the run
AfterFailedClone ==
    /\ AfterSync
    /\ last.prev.called
    /\ last.prev.path = "clone"
    /\ ~last.prev.success
    /\ serverTip # NoCommit
    /\ GetGitRepository(env, FALSE) # ""
    /\ last.netOk /\ ~last.statusRaises /\ last.proxyFail = "no"

\* C31: the fetch_latest_code that follows a clone which failed after the
\* repository was initialized, made while the remote is reachable and has the
\* target branch, returns success with HEAD at the remote-tracking commit,
\* with forced-update on or off.
C31_RecoveryAfterFailedClone ==
    AfterFailedClone =>
        /\ last.res.success
        /\ repo.rt = serverTip
        /\ HeadCommit(repo) = repo.rt

\* the repository as the fetch of the recorded run left it
AfterFetchStep ==
    FetchRemote(EnsureRemote(last.pre, env, FALSE).g, env, last.netOk,
                last.proxyFail).g

\* C32: when the status query raises, checkout_latest_project_branch goes
\* the way of a dirty tree: with forced-update off it returns the dirty-tree
\* failure and changes nothing after the fetch; with forced-update on it
\* hard-resets to the remote-tracking commit, or fails without a reset when
\* there is no remote-tracking commit.
C32_UnknownStatusIsDirty ==
    (AfterSync /\ FetchSucceeded /\ last.statusRaises) =>
        IF ~env.force_update
        THEN /\ ~last.res.success
             /\ last.res.msg = "dirty_no_force"
             /\ repo = AfterFetchStep
             /\ repo.br = last.pre.br
             /\ repo.head = last.pre.head
             /\ repo.wt = last.pre.wt
             /\ repo.mod = last.pre.mod
        ELSE IF repo.rt = NoCommit
        THEN /\ ~last.res.success
             /\ last.res.msg = "force_update_failed"
             /\ repo = AfterFetchStep
             /\ \A k \in DOMAIN last.log : last.log[k] # "reset_hard"
        ELSE /\ \E k \in DOMAIN last.log :
                   /\ last.log[k] = "reset_hard"
                   /\ \A j \in 1..(k - 1) : last.log[j] \notin LocalWrites
             /\ repo.wt = repo.rt
             /\ ~repo.mod

C32_Witness ==
    /\ AfterSync /\ FetchSucceeded /\ last.statusRaises
    /\ env.force_update
    /\ last.pre.mod
    /\ last.pre.wt # repo.rt
    /\ repo.rt # NoCommit
    /\ \E k \in DOMAIN last.log : last.log[k] = "reset_hard"
    /\ repo.wt = repo.rt

\* C33: in developer mode a construction never reads HEAD, and it returns
\* the content the file had when the construction began or a later one,
\* whatever was written while earlier constructions ran.
C33_HotReload ==
    (last.op = "YamlOperator" /\ "start" \in DOMAIN last /\ last.dev_mode) =>
        /\ last.source # "git"
        /\ \E v \in last.start..MaxMtime :
              last.data = SafeLoad(ReadText(last.path, v))

\* C34: once update(key, value, save=True) was called on a path, every
\* YamlOperator constructed for the path afterwards reads the value last
\* saved, with the cache filled and after a restart, with the file in the
\* tree of HEAD or not.
C34_Durability ==
    (last.op = "YamlOperator" /\ yaml.saved[last.path] # NoCommit) =>
        ValueOf(last.data) = yaml.saved[last.path]

\* the lock object of process p is between two calls
BetweenCalls(p) == lock.pc[p] \in {"idle", "held"}

\* C35: between calls, the lock object of a process has an open file exactly
\* when its last acquire that returned was not followed by a release; an
\* acquire on the object that holds the lock and a release on one that does
\* not change nothing; an acquire that raised leaves the object without
\* file, and an acquire made while no other process holds the lock succeeds.
C35_LockObject ==
    /\ \A p \in LockProcs :
          BetweenCalls(p) => (lock.h[p] # NoFile <=> lock.pc[p] = "held")
    /\ last.op \in {"acquire_again", "release_idle"} => lock = last.pre
    /\ last.op = "raise" =>
          /\ lock.h[last.proc] = NoFile
          /\ lock.pc[last.proc] = "idle"
    /\ (last.op = "acquire" /\ ~last.other_held) =>
          /\ ~last.raised
          /\ lock.pc[last.proc] = "held"

C35_Witness ==
    /\ last.op = "acquire"
    /\ ~last.raised
    /\ lock.pc[last.proc] = "held"
    /\ lock.h[last.proc] # NoFile
    /\ lock.created >= 2
    /\ \A q \in LockProcs \ {last.proc} : lock.pc[q] = "idle"

\* the with-blocks of thread t whose acquire succeeded
AcquiredBlocks(t) ==
    {k \in DOMAIN lock.blocks[t] : lock.blocks[t][k]}

\* C36: try_acquire yields True exactly when its acquire took the lock; on
\* exit, by the end of the body or by an exception, it releases the lock when
\* it had taken it and leaves it alone when it had not; so the lock is taken
\* exactly while one with-block that acquired it is open.
C36_TryAcquire ==
    /\ last.op = "enter" =>
          /\ last.yielded <=> last.pre.holder = NoOwner
          /\ last.yielded => lock.holder = last.thread
          /\ ~last.yielded => lock.holder = last.pre.holder
    /\ last.op = "exit" =>
          /\ last.acquired => (last.pre.holder = last.thread
                               /\ lock.holder = NoOwner)
          /\ ~last.acquired => lock.holder = last.pre.holder
    /\ \A t \in Threads :
          /\ Cardinality(AcquiredBlocks(t)) <= 1
          /\ lock.holder = t <=> AcquiredBlocks(t) # {}
    /\ lock.holder = NoOwner <=> \A t \in Threads : AcquiredBlocks(t) = {}

C36_Witness ==
    /\ last.op = "exit"
    /\ last.raised
    /\ ~last.acquired
    /\ lock.holder # NoOwner
    /\ lock.holder # last.thread
    /\ AcquiredBlocks(lock.holder) # {}

\* C37: on a PcControllerBase, whatever was called and with the virtual
\* gamepad package or without, background mode has the Xbox gamepad as the
\* active button controller, and enable_foreground_mode leaves background
\* mode off with the keyboard controller active.
C37_BackgroundUsesXbox ==
    /\ proc.background_mode => proc.btn_controller = "xbox"
    /\ last.op = "enable_foreground_mode" =>
          /\ ~proc.background_mode
          /\ proc.btn_controller = "keyboard"

====
